----------------------------- MODULE CommandLog -----------------------------
(***************************************************************************)
(* What the store's single writer promises its callers, with no goroutine, *)
(* queue, batch or transaction in sight: a log of commands that only grows *)
(* and, for each command, an answer that is true of the log for ever.      *)
(***************************************************************************)
EXTENDS Naturals, Sequences

CONSTANT Commands

VARIABLES
    log,        \* the commands whose effects are durable, in commit order
    answer      \* command -> what its caller has been told

vars == <<log, answer>>

InLog(c) == \E i \in DOMAIN log : log[i] = c

Init ==
    /\ log = <<>>
    /\ answer = [c \in Commands |-> "idle"]

\* A command is accepted, or refused before it could have any effect.
Submit(c) ==
    /\ answer[c] = "idle"
    /\ \E a \in {"pending", "refused"} : answer' = [answer EXCEPT ![c] = a]
    /\ UNCHANGED log

\* Some accepted commands become durable together, each for the first time.
\* One whose caller stopped waiting may be among them, a refused one may not.
Commit ==
    /\ log' \in Seq(Commands)
    /\ Len(log') >= Len(log)
    /\ SubSeq(log', 1, Len(log)) = log
    /\ \A i \in Len(log) + 1 .. Len(log') :
         /\ answer[log'[i]] \in {"pending", "unknown"}
         /\ \A j \in 1 .. i - 1 : log'[j] # log'[i]
    /\ UNCHANGED answer

\* "ok" only for a durable command, "refused" only for one that is not and
\* never will be; "unknown" commits the writer to nothing.
Answer(c) ==
    /\ answer[c] = "pending"
    /\ \E a \in {"ok", "refused", "unknown"} :
         /\ a = "ok" => InLog(c)
         /\ a = "refused" => ~InLog(c)
         /\ answer' = [answer EXCEPT ![c] = a]
    /\ UNCHANGED log

Next ==
    \/ \E c \in Commands : Submit(c) \/ Answer(c)
    \/ Commit

Spec == Init /\ [][Next]_vars
=============================================================================
