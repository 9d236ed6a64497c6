------------------------------ MODULE Compiler ------------------------------
(***************************************************************************)
(* The rule compiler (internal/compiler/compiler.go). A text is a sequence *)
(* of lines; of a line the scan looks at two things: whether a SecRule or  *)
(* SecAction starts on it, and the first "id:<number>" on it, if any. A    *)
(* rule that is continued with a backslash has its id on a later line,     *)
(* which starts no directive. A source is [name, body], name being its     *)
(* "<Kind>/<Name>" label.                                                  *)
(***************************************************************************)
EXTENDS Naturals, Sequences, FiniteSetsExt

CONSTANTS
    IDs,  \* the numbers of rules, which are strings of digits
    NoID  \* a line without an id action; also: no conflict

Lines == [directive : BOOLEAN, id : IDs \cup {NoID}]
Sources == [name : STRING, body : Seq(Lines)]
Conflicts == [id : IDs, first : STRING, second : STRING]

ASSUME CompilerAssumption == NoID \notin IDs \cup Conflicts

Line(directive, id) == [directive |-> directive, id |-> id]
Banner == Line(FALSE, NoID)

(* The texts one after the other, as the builder collects them. *)
Join(texts) ==
    LET joined[n \in 0..Len(texts)] == IF n = 0 THEN <<>> ELSE joined[n - 1] \o texts[n]
    IN  joined[Len(texts)]

(* What is written out: each source between its two banner comments. *)
Concatenate(sources) ==
    Join([i \in DOMAIN sources |-> <<Banner>> \o sources[i].body \o <<Banner>>])

(* What is scanned: the lines of all bodies in order, with the label of each. *)
Labelled(sources) ==
    Join([i \in DOMAIN sources |->
        [j \in DOMAIN sources[i].body |->
            [label |-> sources[i].name, line |-> sources[i].body[j]]]])

(* The scan's state: ruleCount, ruleOwner as a set of pairs, and the error that *)
(* ends it.                                                                     *)
Start == [ruleCount |-> 0, ruleOwner |-> {}, conflict |-> NoID]

Owners(state, id) == {o.label : o \in {o \in state.ruleOwner : o.id = id}}

ScanAcrossOnly(state, l) ==
    LET id == l.line.id
        counted == [state EXCEPT !.ruleCount = @ + 1]
        others == Owners(state, id) \ {l.label}
    IN  IF state.conflict # NoID \/ ~l.line.directive THEN state
        ELSE IF id = NoID THEN counted
        ELSE IF others # {}
             THEN [state EXCEPT !.conflict =
                     [id |-> id, first |-> CHOOSE o \in others : TRUE, second |-> l.label]]
             ELSE [counted EXCEPT !.ruleOwner = @ \cup {[id |-> id, label |-> l.label]}]

ScanCountsIDs(state, l) ==
    LET id == l.line.id
        counted == [state EXCEPT !.ruleCount = @ + 1]
    IN  IF state.conflict # NoID \/ ~l.line.directive \/ id = NoID THEN state
        ELSE IF Owners(state, id) # {}
             THEN [state EXCEPT !.conflict =
                     [id |-> id, first |-> CHOOSE o \in Owners(state, id) : TRUE,
                      second |-> l.label]]
             ELSE [counted EXCEPT !.ruleOwner = @ \cup {[id |-> id, label |-> l.label]}]

(* The loop body: only a line that starts a directive counts, and only an id on *)
(* that line is compared; the first id that has an owner ends the scan.         *)
Scan(state, l) ==
    LET id == l.line.id
        counted == [state EXCEPT !.ruleCount = @ + 1]
    IN  IF state.conflict # NoID \/ ~l.line.directive THEN state
        ELSE IF id = NoID THEN counted
        ELSE IF Owners(state, id) # {}
             THEN [state EXCEPT !.conflict =
                     [id |-> id, first |-> CHOOSE o \in Owners(state, id) : TRUE,
                      second |-> l.label]]
             ELSE [counted EXCEPT !.ruleOwner = @ \cup {[id |-> id, label |-> l.label]}]

(* Either a bundle or a *ConflictError, the other field being empty. *)
Bundle(text, n) == [err |-> NoID, compiled |-> text, ruleCount |-> n]
ConflictError(c) == [err |-> c, compiled |-> <<>>, ruleCount |-> 0]

(* The loop: the state after the last line. *)
ScanAll(ls) ==
    LET after[n \in 0..Len(ls)] == IF n = 0 THEN Start ELSE Scan(after[n - 1], ls[n])
    IN  after[Len(ls)]

Compile(sources) ==
    LET end == ScanAll(Labelled(sources)) IN
    IF sources = <<>> THEN Bundle(<<>>, 0)
    ELSE IF end.conflict # NoID THEN ConflictError(end.conflict)
    ELSE Bundle(Concatenate(sources), end.ruleCount)

(* The engine's own count of the text it was sent (BuildWAF). *)
CountRules(text) == Cardinality({i \in DOMAIN text : text[i].directive})

-----------------------------------------------------------------------------
(* What the scan should find, without the scan. *)

(* The positions of ls that declare the id of position j before j. *)
Earlier(ls, j) ==
    {i \in 1..(j - 1) : ls[i].line.directive /\ ls[i].line.id = ls[j].line.id}

Duplicates(ls) ==
    {j \in DOMAIN ls : ls[j].line.directive /\ ls[j].line.id # NoID /\ Earlier(ls, j) # {}}

(* The conflict is the first line that repeats an id, with the source that      *)
(* declared it first; without one the text is every source in order.            *)
FirstConflict(ls, j) ==
    [id |-> ls[j].line.id, first |-> ls[Min(Earlier(ls, j))].label, second |-> ls[j].label]

CompilesRight(sources) ==
    LET ls == Labelled(sources)
        dups == Duplicates(ls)
        result == Compile(sources)
    IN  IF dups = {} THEN result.err = NoID /\ result.compiled = Concatenate(sources)
        ELSE result.err = FirstConflict(ls, Min(dups))

(* A bundle counts the directives of its text. *)
CountsRight(sources) ==
    LET result == Compile(sources) IN
    result.err = NoID => result.ruleCount = CountRules(result.compiled)
=============================================================================
