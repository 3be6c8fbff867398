----------------------------- MODULE ReActLoop -----------------------------
(***************************************************************************)
(* ReActAgent.run (05-agents/agentkit/react.py): the loop that asks the    *)
(* model, parses its reply and executes the tool it names, until one of    *)
(* the five reasons to stop that the module lists, or an answer.           *)
(*                                                                         *)
(* The model and the tools may do anything: what a reply says, what it     *)
(* costs, whether a tool succeeds and how long either takes is the         *)
(* environment's choice.  Of a reply the loop's control needs to know      *)
(* whether it is final, cannot be parsed, or names a call; of a call, its  *)
(* signature.  The texts of messages, steps and observations are left out. *)
(***************************************************************************)
EXTENDS Integers, Sequences

CONSTANTS
  Signatures,      \* tool calls told apart by name and arguments
  Windows,         \* values of loop_window
  MaxIterations,   \* max_iterations
  MaxCost,         \* max_cost_usd
  Dearest,         \* what one reply costs at most
  Deadline         \* deadline_seconds

\* Nothing is validated by the dataclass.
ASSUME LoopAssumption ==
  /\ Windows \subseteq Nat
  /\ MaxIterations \in Nat
  /\ MaxCost \in Nat /\ Dearest \in Nat
  /\ Deadline \in Nat

VARIABLES
  loop_window,   \* self.loop_window
  pc,            \* "turn", the top of the loop; "asking" the model; in a "tool"; "stopped"
  index,         \* turns begun and finished
  spent,         \* self._cost(usage)
  elapsed,       \* time since the start, saturated once past the deadline
  errors,        \* consecutive_errors
  recent,        \* recent_signatures
  calls,         \* registry.calls
  stop_reason,   \* of the result; "none" while the loop runs
  outcomes       \* history: of every turn finished, whether it got anywhere

vars == <<loop_window, pc, index, spent, elapsed, errors, recent, calls, stop_reason, outcomes>>

Reasons ==
  {"final_answer", "max_iterations", "budget_exceeded", "deadline_exceeded",
   "loop_detected", "no_progress", "raised"}

TypeOK ==
  /\ loop_window \in Windows
  /\ pc \in {"turn", "asking", "tool", "stopped"}
  /\ index \in 0 .. MaxIterations /\ (pc \in {"asking", "tool"} => index < MaxIterations)
  /\ spent \in Nat
  /\ elapsed \in 0 .. Deadline + 1
  /\ errors \in 0 .. 3
  /\ recent \in Seq(Signatures)
  /\ calls \in Seq(Signatures)
  /\ stop_reason \in Reasons \union {"none"} /\ (stop_reason = "none" <=> pc # "stopped")
  /\ outcomes \in Seq({"ok", "failed"})

Init ==
  /\ loop_window \in Windows
  /\ pc = "turn"
  /\ index = 0
  /\ spent = 0
  /\ elapsed = 0
  /\ errors = 0
  /\ recent = <<>>
  /\ calls = <<>>
  /\ stop_reason = "none"
  /\ outcomes = <<>>

-----------------------------------------------------------------------------
Finish(reason) == pc' = "stopped" /\ stop_reason' = reason

\* The top of the loop.
TurnLeft == index < MaxIterations

TooDear_never == FALSE
TooDear == spent > MaxCost

Stop(reason) ==
  /\ pc = "turn"
  /\ Finish(reason)
  /\ UNCHANGED <<loop_window, index, spent, elapsed, errors, recent, calls, outcomes>>

OutOfTurns == ~TurnLeft /\ Stop("max_iterations")
OutOfTime == TurnLeft /\ elapsed > Deadline /\ Stop("deadline_exceeded")
OutOfBudget == TurnLeft /\ elapsed <= Deadline /\ TooDear /\ Stop("budget_exceeded")

Ask ==
  /\ pc = "turn"
  /\ TurnLeft /\ elapsed <= Deadline /\ ~TooDear
  /\ pc' = "asking"
  /\ UNCHANGED <<loop_window, index, spent, elapsed, errors, recent, calls, stop_reason, outcomes>>

-----------------------------------------------------------------------------
\* provider.complete returns, and its usage is added.
Reply ==
  /\ pc = "asking"
  /\ \E cost \in 0 .. Dearest : spent' = spent + cost
  /\ UNCHANGED <<loop_window, elapsed>>

\* It raises, and nothing in run() catches it: there is no result.
Raise ==
  /\ pc = "asking"
  /\ Finish("raised")
  /\ UNCHANGED <<loop_window, index, spent, elapsed, errors, recent, calls, outcomes>>

Answer ==
  /\ Reply
  /\ Finish("final_answer")
  /\ UNCHANGED <<index, errors, recent, calls, outcomes>>

\* for index in range(max_iterations)
NextTurn == pc' = "turn" /\ index' = index + 1 /\ UNCHANGED stop_reason

Errors_total(outcome) == IF outcome = "ok" THEN errors ELSE errors + 1
Errors(outcome) == IF outcome = "ok" THEN 0 ELSE errors + 1

\* A turn ends with a tool that ran or with an error of any kind.
EndTurn(outcome) ==
  /\ errors' = Errors(outcome)
  /\ outcomes' = Append(outcomes, outcome)
  /\ IF errors' >= 3
     THEN Finish("no_progress") /\ UNCHANGED index
     ELSE NextTurn

\* Neither an action nor an answer can be read from the reply.
Garbled_uncounted ==
  /\ Reply
  /\ pc' = "turn"
  /\ UNCHANGED <<index, errors, stop_reason, outcomes, recent, calls>>
Garbled ==
  /\ Reply
  /\ EndTurn("failed")
  /\ UNCHANGED <<recent, calls>>

\* recent_signatures.count(signature) >= 2
Repeated_in_a_row(sig) ==
  /\ Len(recent) >= 2
  /\ recent[Len(recent)] = sig /\ recent[Len(recent) - 1] = sig
Repeated(sig) ==
  \E i, j \in DOMAIN recent : i # j /\ recent[i] = sig /\ recent[j] = sig

\* [-loop_window:], which for a window of 0 is the whole list.
Newest(seq) ==
  IF loop_window = 0 \/ Len(seq) <= loop_window THEN seq
  ELSE SubSeq(seq, Len(seq) - loop_window + 1, Len(seq))

Loop(sig) ==
  /\ Reply
  /\ Repeated(sig)
  /\ Finish("loop_detected")
  /\ UNCHANGED <<index, errors, recent, calls, outcomes>>

\* registry.execute records the call before it looks for the tool.
Act(sig) ==
  /\ Reply
  /\ ~Repeated(sig)
  /\ recent' = Newest(Append(recent, sig))
  /\ calls' = Append(calls, sig)
  /\ pc' = "tool"
  /\ UNCHANGED <<index, errors, stop_reason, outcomes>>

\* execute turns an unknown tool, bad arguments, an exception and a result
\* that came too late into failed results.
Observe(outcome) ==
  /\ pc = "tool"
  /\ EndTurn(outcome)
  /\ UNCHANGED <<loop_window, spent, elapsed, recent, calls>>

-----------------------------------------------------------------------------
Tick ==
  /\ pc # "stopped"
  /\ elapsed <= Deadline
  /\ elapsed' = elapsed + 1
  /\ UNCHANGED <<loop_window, pc, index, spent, errors, recent, calls, stop_reason, outcomes>>

Step ==
  \/ OutOfTurns \/ OutOfTime \/ OutOfBudget \/ Ask
  \/ Raise \/ Answer \/ Garbled
  \/ \E sig \in Signatures : Loop(sig) \/ Act(sig)
  \/ \E outcome \in {"ok", "failed"} : Observe(outcome)

Next == Step \/ Tick

\* The model and the tools return.  Nothing is assumed of the clock.
Fairness == WF_vars(Step)

Spec == Init /\ [][Next]_vars
FairSpec == Spec /\ Fairness

-----------------------------------------------------------------------------
(* "Checked BEFORE the call, so the ceiling is a ceiling" (react.py:242).  *)
(* What a reply costs is known after it only: the ceiling is exceeded by   *)
(* the price of one reply at most, whichever way the loop goes on.         *)
OvershootsOneReply == spent <= MaxCost + Dearest

(* "The same call twice already produced the same observation" (react.py:  *)
(* 304): of loop_window + 1 consecutive executions, whatever unreadable     *)
(* replies came between them, no three are the same call; with a window of *)
(* 0 no call is executed three times in the whole run.                     *)
NoThirdInWindow ==
  \A i, j, k \in DOMAIN calls :
    i < j /\ j < k /\ calls[i] = calls[j] /\ calls[j] = calls[k] =>
      loop_window # 0 /\ k - i > loop_window

(* The run gives up for want of progress exactly when three turns in a row *)
(* have failed, by unreadable replies and failing tools in any mixture.    *)
Stuck ==
  /\ Len(outcomes) >= 3
  /\ \A i \in Len(outcomes) - 2 .. Len(outcomes) : outcomes[i] = "failed"
GivesUpWhenStuck == Stuck <=> stop_reason = "no_progress"

(* Every run ends, even if the clock stands still, replies are free, no    *)
(* tool fails and calls alternate so that no loop is detected.             *)
Terminates == <>(pc = "stopped")
=============================================================================
