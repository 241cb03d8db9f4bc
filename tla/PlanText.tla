------------------------------ MODULE PlanText ------------------------------
(***************************************************************************)
(* How the runner reads a planner's reply (runner/plan.go and the parsing  *)
(* half of runner/plan_skill.go).  A text is a sequence of tokens: braces, *)
(* quotes, backslashes, line ends and code fences, and words, spaces and   *)
(* other punctuation, which the scanner steps over.                        *)
(***************************************************************************)
EXTENDS Integers, Sequences, SequencesExt

LOCAL Open == "{"
LOCAL Close == "}"
LOCAL Quote == "quote"
LOCAL Backslash == "backslash"
LOCAL Fence == "fence"
LOCAL Newline == "newline"
LOCAL Space == {"space", Newline}

\* strings.TrimSpace
TrimSpace(t) ==
    LET ink == {i \in DOMAIN t : t[i] \notin Space} IN
    IF ink = {} THEN << >>
    ELSE SubSeq(t, CHOOSE i \in ink : \A j \in ink : i <= j, CHOOSE i \in ink : \A j \in ink : j <= i)

IsIdentifier(t) == t # << >> /\ \A i \in DOMAIN t : t[i] = "word"

\* strings.IndexByte and strings.LastIndex, 0 when there is none
IndexOf(t, c) == SelectInSeq(t, LAMBDA x : x = c)
LastIndexOf(t, c) == SelectLastInSeq(t, LAMBDA x : x = c)

StripCodeFences(t) ==
    IF t = << >> \/ Head(t) # Fence THEN t
    ELSE LET rest == Tail(t)
             eol  == IndexOf(rest, Newline)
             tag  == TrimSpace(SubSeq(rest, 1, eol - 1))
             body == IF eol > 0 /\ (tag = << >> \/ IsIdentifier(tag)) THEN SubSeq(rest, eol + 1, Len(rest)) ELSE rest
             end  == LastIndexOf(body, Fence) IN
         IF end > 0 THEN SubSeq(body, 1, end - 1) ELSE body

\* Mutant: a brace in a string counts.
ScanBraces(s, c) ==
    IF s.end > 0 THEN s
    ELSE LET at == s.at + 1
             depth == s.depth + (IF c = Open THEN 1 ELSE IF c = Close THEN -1 ELSE 0) IN
         [s EXCEPT !.at = at, !.depth = depth, !.end = IF c = Close /\ depth = 0 THEN at ELSE 0]

\* One character of the scan: how deep it is, whether it is in a string and
\* after a backslash of one, and where the object ended
Scan(s, c) ==
    LET n == [s EXCEPT !.at = @ + 1] IN
    IF s.end > 0 THEN s
    ELSE IF s.escape THEN [n EXCEPT !.escape = FALSE]
    ELSE IF c = Backslash THEN [n EXCEPT !.escape = s.inString]
    ELSE IF c = Quote THEN [n EXCEPT !.inString = ~@]
    ELSE IF s.inString \/ c \notin {Open, Close} THEN n
    ELSE IF c = Open THEN [n EXCEPT !.depth = @ + 1]
    ELSE [n EXCEPT !.depth = @ - 1, !.end = IF s.depth = 1 THEN n.at ELSE 0]

ExtractBalancedObject(t) ==
    LET start == IndexOf(t, Open)
        from  == SubSeq(t, start, Len(t))
        scan  == FoldLeft(Scan, [at |-> 0, depth |-> 0, inString |-> FALSE, escape |-> FALSE, end |-> 0], from) IN
    IF start = 0 THEN << >> ELSE SubSeq(from, 1, scan.end)

\* << >> when there is no object
ExtractJSONObject(raw) == ExtractBalancedObject(TrimSpace(StripCodeFences(TrimSpace(raw))))

\* parsePlannerReviewOutput: a reject wins, and one of the two must be there.
\* Unmarshal is what json makes of an object: [reject, approved], where the
\* latter is "yes", "no" or "absent".
ParsePlannerReviewOutput(raw, Unmarshal) ==
    LET object == ExtractJSONObject(raw) IN
    IF object = << >> \/ object \notin DOMAIN Unmarshal THEN "error"
    ELSE LET out == Unmarshal[object] IN
         CASE out.reject -> "reject"
           [] ~out.reject /\ out.approved = "yes" -> "approve"
           [] ~out.reject /\ out.approved = "no" -> "reject"
           [] OTHER -> "error"
=============================================================================
