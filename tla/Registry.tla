------------------------------ MODULE Registry ------------------------------
(***************************************************************************)
(* The orchestrator's configuration and skill registry                     *)
(* (orchestrator/orchestrator.go, mcp.go, skill.go), which callers change  *)
(* from their own goroutines while requests start.  Preparing a skill, or  *)
(* binding the orchestrator's own, happens before the lock is taken.       *)
(*                                                                         *)
(* A registration is a record: its id, the name it is mounted under, who   *)
(* supplied it and whether its skill is bound already.                     *)
(***************************************************************************)
EXTENDS Integers, Sequences, FiniteSets, Functions, TLC

CONSTANTS
    Batches,    \* the arguments of each call of AddSkills that may be made
    Removals,   \* the arguments RemoveSkills may be called with: sequences of names
    Servers,    \* the MCP servers there are
    Planners    \* the orchestrator skills SetOrchestratorSkill may be given

VARIABLES
    skills,     \* o.skills: registrations by name, with the MCP servers they got
    servers,    \* o.globalMCPServers
    locked,     \* o.configLocked
    planner,    \* o.orchestratorSkill
    adding,     \* where each call of AddSkills stands, with its copy of servers
    setting,    \* where each call of SetOrchestratorSkill stands
    calls       \* how many calls may still be made

registry == <<skills, servers, locked, planner, adding, setting>>

Calls == DOMAIN Batches

RegistryInit ==
    /\ servers = {} /\ locked = FALSE
    /\ planner = "embedded"
    /\ adding = [c \in Calls |-> [pc |-> "new", servers |-> {}]]
    /\ setting = [p \in Planners |-> "new"]

Call == calls > 0 /\ calls' = calls - 1

-----------------------------------------------------------------------------
\* Skills

\* AddSkills up to the lock: the servers are copied once for the whole batch;
\* a skill that is bound already, or whose tools clash, fails the call.
AddSkillsPrepare(c) ==
    /\ adding[c].pc = "new" /\ Call
    /\ adding' = [adding EXCEPT ![c] =
            IF \E i \in DOMAIN Batches[c] : Batches[c][i].bound THEN [@ EXCEPT !.pc = "failed"]
            ELSE [pc |-> "prepared", servers |-> servers]]
    /\ UNCHANGED <<skills, servers, locked, planner, setting>>

\* The registrations that compete for a name: the one there is and the new ones.
Tentative(c, n) ==
    (IF n \in DOMAIN skills THEN {skills[n]} ELSE {})
        \cup {[id |-> Batches[c][i].id, user |-> Batches[c][i].user, servers |-> adding[c].servers] :
                 i \in {j \in DOMAIN Batches[c] : Batches[c][j].name = n}}

UserSupplied(regs) == {r \in regs : r.user}

Single(S) == \E x \in S : S = {x}

\* Mutant: any user-supplied skill will do.
ResolvableAny(regs) == Single(regs) \/ UserSupplied(regs) # {}

\* A name with several registrations needs exactly one that a user supplied.
Resolvable(regs) == Single(regs) \/ Single(UserSupplied(regs))

Resolve(regs) == IF Single(regs) THEN CHOOSE r \in regs : TRUE
                 ELSE CHOOSE r \in UserSupplied(regs) : TRUE

\* AddSkills under the lock: all names resolve, or nothing changes.
AddSkillsCommit(c) ==
    LET names == DOMAIN skills \cup {Batches[c][i].name : i \in DOMAIN Batches[c]}
    IN  /\ adding[c].pc = "prepared"
        /\ IF \A n \in names : Resolvable(Tentative(c, n))
           THEN /\ skills' = [n \in names |-> Resolve(Tentative(c, n))]
                /\ adding' = [adding EXCEPT ![c].pc = "added"]
           ELSE /\ adding' = [adding EXCEPT ![c].pc = "failed"]
                /\ UNCHANGED skills
        /\ UNCHANGED <<servers, locked, planner, setting, calls>>

\* RemoveSkills: every name is registered and given once, or nothing changes.
RemoveSkills(names) ==
    /\ Call
    /\ skills' = IF Range(names) \subseteq DOMAIN skills /\ IsInjective(names)
                 THEN Restrict(skills, DOMAIN skills \ Range(names)) ELSE skills
    /\ UNCHANGED <<servers, locked, planner, adding, setting>>

-----------------------------------------------------------------------------
\* MCP servers and the startup-only settings

AddMCPServers(S) ==
    /\ Call
    /\ servers' = IF ~locked /\ S \cap servers = {} THEN servers \cup S ELSE servers
    /\ UNCHANGED <<skills, locked, planner, adding, setting>>

\* Close closes the servers and forgets them.
CloseServers ==
    /\ Call
    /\ servers' = {}
    /\ UNCHANGED <<skills, locked, planner, adding, setting>>

\* SetOrchestratorSkill binds the skill it is given to the default client ...
SetPlannerPrepare(p) ==
    /\ setting[p] = "new" /\ Call
    /\ setting' = [setting EXCEPT ![p] = "configured"]
    /\ UNCHANGED <<skills, servers, locked, planner, adding>>

\* Mutant: the setting is not startup-only once the skill is bound.
SetPlannerCommitLate(p) ==
    /\ setting[p] = "configured"
    /\ setting' = [setting EXCEPT ![p] = "set"]
    /\ planner' = p
    /\ UNCHANGED <<skills, servers, locked, adding, calls>>

\* ... and installs it unless a request started in the meantime.  SetClient,
\* SetLogger and SetMaxRunningRunners follow the same pattern.
SetPlannerCommit(p) ==
    /\ setting[p] = "configured"
    /\ setting' = [setting EXCEPT ![p] = IF locked THEN "refused" ELSE "set"]
    /\ planner' = IF locked THEN planner ELSE p
    /\ UNCHANGED <<skills, servers, locked, adding, calls>>

RegistryNext ==
    \/ \E c \in Calls : AddSkillsPrepare(c) \/ AddSkillsCommit(c)
    \/ \E names \in Removals : RemoveSkills(names)
    \/ \E S \in (SUBSET Servers) \ {{}} : AddMCPServers(S)
    \/ CloseServers
    \/ \E p \in Planners : SetPlannerPrepare(p) \/ SetPlannerCommit(p)

-----------------------------------------------------------------------------
\* Properties

\* A user-supplied skill keeps its name until somebody removes it: another
\* AddSkills, even one prepared before it was there, is refused or loses
\* ("it takes precedence and is registered").
UserSkillStays ==
    [][\A n \in DOMAIN skills : skills[n].user =>
          \/ n \in DOMAIN skills' /\ skills'[n] = skills[n]
          \/ \E names \in Removals : n \in Range(names) /\ n \notin DOMAIN skills']_skills
=============================================================================
