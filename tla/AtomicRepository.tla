-------------------------- MODULE AtomicRepository --------------------------
(***************************************************************************)
(* What the managed clone promises to who writes through it, whatever      *)
(* fails: while a call is open, and only then, its files may come to the   *)
(* branch, all in one step and no others with them; and who is told of     *)
(* success has had them there since the call.                              *)
(***************************************************************************)
CONSTANTS
    Files,
    Writers, FilesOf,   \* and the files that each one writes
    Others, Initial     \* who else writes files: other clones, and before

VARIABLES
    branch,     \* who wrote each file last
    standing    \* of each writer's call

vars == <<branch, standing>>

Open == {"open", "written"}

Holds(w) == \A f \in FilesOf[w] : branch[f] = w

Init ==
    /\ branch = [f \in Files |-> Initial]
    /\ standing = [w \in Writers |-> "none"]

\* A call that would change nothing counts as written at once.
Call(w) ==
    /\ standing[w] \notin Open
    /\ standing' = [standing EXCEPT ![w] = IF Holds(w) THEN "written" ELSE "open"]
    /\ UNCHANGED branch

\* The answer to a write may be lost.
Write(w, answer) ==
    /\ standing[w] \in Open
    /\ branch' = [f \in Files |-> IF f \in FilesOf[w] THEN w ELSE branch[f]]
    /\ standing' = [standing EXCEPT ![w] = answer]

Confirm(w) ==
    /\ standing[w] = "written"
    /\ standing' = [standing EXCEPT ![w] = "ok"]
    /\ UNCHANGED branch

\* Calls fail together when the process stops.
Fail(ws) ==
    /\ \A w \in ws : standing[w] \in Open
    /\ standing' = [w \in Writers |-> IF w \in ws THEN "failed" ELSE standing[w]]
    /\ UNCHANGED branch

WriteElsewhere(f) ==
    /\ branch' = [branch EXCEPT ![f] = Others]
    /\ UNCHANGED standing

Next ==
    \/ \E w \in Writers :
          Call(w) \/ Confirm(w) \/ \E answer \in {"ok", "failed"} : Write(w, answer)
    \/ \E ws \in SUBSET Writers : Fail(ws)
    \/ \E f \in Files : WriteElsewhere(f)

Spec == Init /\ [][Next]_vars
=============================================================================
