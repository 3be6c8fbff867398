-------------------------- MODULE ReActLoop_proofs --------------------------
(***************************************************************************)
(* Proofs about ReActLoop, for any calls, windows and ceilings.            *)
(***************************************************************************)
EXTENDS ReActLoop, SequenceTheorems, TLAPS

-----------------------------------------------------------------------------
\* What is kept of the signatures: the newest of them, all if the window is 0.
LEMMA NewestKept ==
  ASSUME NEW seq \in Seq(Signatures), loop_window \in Nat
  PROVE  /\ Newest(seq) \in Seq(Signatures)
         /\ Len(Newest(seq)) = IF loop_window = 0 \/ Len(seq) <= loop_window
                               THEN Len(seq) ELSE loop_window
         /\ \A i \in 1 .. Len(Newest(seq)) :
              Newest(seq)[i] = seq[Len(seq) - Len(Newest(seq)) + i]
<1>1. CASE loop_window = 0 \/ Len(seq) <= loop_window
  <2>1. Newest(seq) = seq
    BY <1>1 DEF Newest
  <2>2. Len(seq) \in Nat
    BY LenProperties
  <2>3. \A i \in 1 .. Len(seq) : Len(seq) - Len(seq) + i = i
    BY <2>2
  <2> QED
    BY <1>1, <2>1, <2>3
<1>2. CASE ~(loop_window = 0 \/ Len(seq) <= loop_window)
  <2> DEFINE m == Len(seq) - loop_window + 1
  <2>1. Len(seq) \in Nat /\ m \in 1 .. Len(seq) + 1 /\ Len(seq) - m + 1 = loop_window
    BY <1>2, LenProperties
  <2>2. Newest(seq) = SubSeq(seq, m, Len(seq))
    BY <1>2 DEF Newest
  <2>3. /\ SubSeq(seq, m, Len(seq)) \in Seq(Signatures)
        /\ Len(SubSeq(seq, m, Len(seq))) = loop_window
        /\ \A i \in 1 .. loop_window : SubSeq(seq, m, Len(seq))[i] = seq[m + i - 1]
    <3>1. m \in 1 .. Len(seq) + 1 /\ Len(seq) \in m - 1 .. Len(seq) /\ m <= Len(seq)
      BY <1>2, <2>1
    <3> HIDE DEF m
    <3> QED
      BY <2>1, <3>1, SubSeqProperties
  <2>4. \A i \in 1 .. loop_window : m + i - 1 = Len(seq) - loop_window + i
    BY <2>1
  <2> QED
    BY <1>2, <2>2, <2>3, <2>4
<1> QED
  BY <1>1, <1>2

LEMMA WindowTyped ==
  ASSUME TypeOK
  PROVE  loop_window \in Nat
BY LoopAssumption DEF TypeOK

\* The errors counted are the failed turns the run ends with so far, and the
\* third of them in a row ends it.
ErrorsInv ==
  /\ errors <= Len(outcomes)
  /\ \A i \in Len(outcomes) - errors + 1 .. Len(outcomes) : outcomes[i] = "failed"
  /\ errors < Len(outcomes) => outcomes[Len(outcomes) - errors] = "ok"
  /\ errors = 3 <=> stop_reason = "no_progress"

LEMMA EndTurnTyped ==
  ASSUME TypeOK, ErrorsInv, NEW outcome \in {"ok", "failed"}, EndTurn(outcome),
         pc \in {"asking", "tool"}
  PROVE  /\ pc' \in {"turn", "stopped"} /\ index' \in 0 .. MaxIterations
         /\ errors' \in 0 .. 3 /\ outcomes' \in Seq({"ok", "failed"})
         /\ stop_reason' \in Reasons \union {"none"} /\ (stop_reason' = "none" <=> pc' # "stopped")
         /\ ErrorsInv'
<1> USE LoopAssumption DEF TypeOK
<1>1. errors \in 0 .. 2 /\ stop_reason = "none"
  BY DEF ErrorsInv
<1>2. /\ errors' = IF outcome = "ok" THEN 0 ELSE errors + 1
      /\ errors' \in 0 .. 3
      /\ outcomes' = Append(outcomes, outcome)
  BY <1>1 DEF EndTurn, Errors
<1>3. /\ outcomes' \in Seq({"ok", "failed"})
      /\ Len(outcomes') = Len(outcomes) + 1
      /\ \A i \in 1 .. Len(outcomes) : outcomes'[i] = outcomes[i]
      /\ outcomes'[Len(outcomes) + 1] = outcome
      /\ Len(outcomes) \in Nat
  BY <1>2, AppendProperties, LenProperties
<1>4. CASE errors' >= 3
  BY <1>1, <1>2, <1>3, <1>4 DEF EndTurn, Finish, ErrorsInv, Reasons
<1>5. CASE errors' < 3
  <2>1. pc' = "turn" /\ index' = index + 1 /\ stop_reason' = "none"
    BY <1>1, <1>2, <1>5 DEF EndTurn, NextTurn
  <2>2. index' \in 0 .. MaxIterations
    BY <2>1
  <2> QED
    BY <1>1, <1>2, <1>3, <1>5, <2>1, <2>2 DEF ErrorsInv
<1> QED
  BY <1>2, <1>4, <1>5

\* A call about to be executed was not in the window twice.
SuffixInv ==
  /\ Len(recent) = IF loop_window = 0 \/ Len(calls) <= loop_window
                   THEN Len(calls) ELSE loop_window
  /\ \A i \in 1 .. Len(recent) : recent[i] = calls[Len(calls) - Len(recent) + i]

LoopInv == TypeOK /\ ErrorsInv /\ SuffixInv /\ NoThirdInWindow

LEMMA LoopInit == Init => LoopInv
<1> SUFFICES ASSUME Init PROVE LoopInv
  OBVIOUS
<1> USE LoopAssumption DEF Init
<1>1. TypeOK
  BY EmptySeq DEF TypeOK, Reasons
<1>2. ErrorsInv /\ SuffixInv /\ NoThirdInWindow
  BY DEF ErrorsInv, SuffixInv, NoThirdInWindow
<1> QED
  BY <1>1, <1>2 DEF LoopInv

LEMMA ActKeepsWindow ==
  ASSUME LoopInv, NEW sig \in Signatures, Act(sig)
  PROVE  /\ recent' \in Seq(Signatures) /\ calls' \in Seq(Signatures)
         /\ SuffixInv' /\ NoThirdInWindow'
<1>0. /\ TypeOK /\ SuffixInv /\ NoThirdInWindow
      /\ recent \in Seq(Signatures) /\ calls \in Seq(Signatures)
  BY DEF LoopInv, TypeOK
<1>1. loop_window \in Nat /\ loop_window' = loop_window
  BY <1>0, WindowTyped DEF Act, Reply
<1>2. /\ calls' \in Seq(Signatures) /\ Len(calls) \in Nat
      /\ Len(calls') = Len(calls) + 1
      /\ \A i \in 1 .. Len(calls) : calls'[i] = calls[i]
      /\ calls'[Len(calls) + 1] = sig
  BY <1>0, AppendProperties, LenProperties DEF Act
<1> DEFINE longer == Append(recent, sig)
<1>3. /\ longer \in Seq(Signatures) /\ Len(recent) \in Nat
      /\ Len(longer) = Len(recent) + 1
      /\ \A i \in 1 .. Len(recent) : longer[i] = recent[i]
      /\ longer[Len(recent) + 1] = sig
  BY <1>0, AppendProperties, LenProperties
<1>4. recent' = Newest(longer)
  BY DEF Act
<1> HIDE DEF longer
<1>5. /\ recent' \in Seq(Signatures)
      /\ Len(recent') = IF loop_window = 0 \/ Len(longer) <= loop_window
                        THEN Len(longer) ELSE loop_window
      /\ \A i \in 1 .. Len(recent') : recent'[i] = longer[Len(longer) - Len(recent') + i]
  BY <1>1, <1>3, <1>4, NewestKept
<1>6. \A i \in 1 .. Len(longer) : longer[i] = calls'[Len(calls') - Len(longer) + i]
  <2> SUFFICES ASSUME NEW i \in 1 .. Len(longer)
               PROVE  longer[i] = calls'[Len(calls') - Len(longer) + i]
    OBVIOUS
  <2>1. Len(recent) <= Len(calls) /\ Len(calls') - Len(longer) = Len(calls) - Len(recent)
    BY <1>0, <1>1, <1>2, <1>3 DEF SuffixInv
  <2>2. CASE i \in 1 .. Len(recent)
    <3>1. Len(calls) - Len(recent) + i \in 1 .. Len(calls)
      BY <1>2, <1>3, <2>1, <2>2
    <3> QED
      BY <1>0, <1>2, <1>3, <2>1, <2>2, <3>1 DEF SuffixInv
  <2>3. CASE i = Len(recent) + 1
    <3>1. Len(calls) - Len(recent) + i = Len(calls) + 1
      BY <1>2, <1>3, <2>3
    <3> QED
      BY <1>2, <1>3, <2>1, <2>3, <3>1
  <2> QED
    BY <1>3, <2>2, <2>3
<1>7. SuffixInv'
  <2>1. Len(recent') = IF loop_window = 0 \/ Len(calls') <= loop_window
                       THEN Len(calls') ELSE loop_window
    BY <1>0, <1>1, <1>2, <1>3, <1>5 DEF SuffixInv
  <2>2. ASSUME NEW i \in 1 .. Len(recent')
        PROVE  recent'[i] = calls'[Len(calls') - Len(recent') + i]
    <3>1. Len(longer) - Len(recent') + i \in 1 .. Len(longer)
      BY <1>1, <1>3, <1>5
    <3>2. recent'[i] = longer[Len(longer) - Len(recent') + i]
      BY <1>5
    <3>3. longer[Len(longer) - Len(recent') + i]
            = calls'[Len(calls') - Len(longer) + (Len(longer) - Len(recent') + i)]
      BY <1>6, <3>1
    <3>4. Len(calls') - Len(longer) + (Len(longer) - Len(recent') + i)
            = Len(calls') - Len(recent') + i
      BY <1>1, <1>2, <1>3, <1>5
    <3> QED
      BY <3>2, <3>3, <3>4
  <2> QED
    BY <1>0, <1>1, <2>1, <2>2 DEF SuffixInv
<1>8. NoThirdInWindow'
  <2> SUFFICES ASSUME NEW i \in 1 .. Len(calls'), NEW j \in 1 .. Len(calls'),
                      NEW k \in 1 .. Len(calls'),
                      i < j, j < k, calls'[i] = calls'[j], calls'[j] = calls'[k]
               PROVE  loop_window # 0 /\ k - i > loop_window
    BY <1>1, <1>2, LenProperties DEF NoThirdInWindow
  <2>1. CASE k <= Len(calls)
    <3>1. i \in DOMAIN calls /\ j \in DOMAIN calls /\ k \in DOMAIN calls
      BY <1>0, <1>2, <2>1, LenProperties
    <3>2. calls[i] = calls[j] /\ calls[j] = calls[k]
      BY <1>2, <2>1
    <3> QED
      BY <3>1, <3>2, <1>0 DEF NoThirdInWindow
  <2>2. CASE k = Len(calls) + 1 /\ ~(loop_window # 0 /\ k - i > loop_window)
    <3> DEFINE off == Len(calls) - Len(recent)
    <3>1. off \in Nat /\ off < i
      BY <1>0, <1>1, <1>2, <1>3, <2>2 DEF SuffixInv
    <3>2. i - off \in 1 .. Len(recent) /\ j - off \in 1 .. Len(recent) /\ i - off # j - off
      BY <1>2, <1>3, <2>2, <3>1
    <3>3. recent[i - off] = calls[i] /\ recent[j - off] = calls[j]
      <4>1. off + (i - off) = i /\ off + (j - off) = j
        BY <1>2, <1>3
      <4> QED
        BY <1>0, <3>2, <4>1 DEF SuffixInv
    <3>4. calls[i] = sig /\ calls[j] = sig
      BY <1>2, <2>2
    <3>5. DOMAIN recent = 1 .. Len(recent)
      BY <1>0, LenProperties
    <3>6. Repeated(sig)
      <4> HIDE DEF off
      <4> QED
        BY <3>2, <3>3, <3>4, <3>5 DEF Repeated
    <3> QED
      BY <3>6 DEF Act
  <2>3. k <= Len(calls) \/ k = Len(calls) + 1
    <3>1. k \in 1 .. Len(calls) + 1
      BY <1>2
    <3> QED
      BY <1>2, <3>1
  <2> QED
    BY <2>1, <2>2, <2>3
<1> QED
  BY <1>2, <1>5, <1>7, <1>8

LEMMA LoopInductive ==
  ASSUME LoopInv, [Next]_vars
  PROVE  LoopInv'
<1> USE LoopAssumption DEF LoopInv
<1>1. ASSUME NEW reason \in {"max_iterations", "deadline_exceeded", "budget_exceeded"},
             Stop(reason)
      PROVE  LoopInv'
  BY <1>1 DEF Stop, Finish, TypeOK, ErrorsInv, SuffixInv, NoThirdInWindow, Newest, Reasons
<1>2. CASE Ask
  BY <1>2 DEF Ask, TurnLeft, TypeOK, ErrorsInv, SuffixInv, NoThirdInWindow
<1>3. CASE Raise
  BY <1>3 DEF Raise, Finish, TypeOK, ErrorsInv, SuffixInv, NoThirdInWindow, Reasons
<1>4. ASSUME Reply
      PROVE  spent' \in Nat /\ UNCHANGED <<loop_window, elapsed>> /\ pc = "asking"
  BY <1>4 DEF Reply, TypeOK
<1>5. CASE Answer \/ \E sig \in Signatures : Loop(sig)
  BY <1>4, <1>5
     DEF Answer, Loop, Finish, TypeOK, ErrorsInv, SuffixInv, NoThirdInWindow, Reasons
<1>6. CASE Garbled
  <2>1. EndTurn("failed") /\ pc = "asking" /\ UNCHANGED <<recent, calls, loop_window, elapsed>>
    BY <1>4, <1>6 DEF Garbled
  <2>2. TypeOK' /\ ErrorsInv'
    BY <1>4, <1>6, <2>1, EndTurnTyped DEF TypeOK, Garbled
  <2> QED
    BY <2>1, <2>2 DEF SuffixInv, NoThirdInWindow
<1>7. ASSUME NEW sig \in Signatures, Act(sig)
      PROVE  LoopInv'
  <2>1. TypeOK'
    BY <1>4, <1>7, ActKeepsWindow DEF TypeOK, Act
  <2>2. ErrorsInv'
    BY <1>7 DEF Act, ErrorsInv
  <2> QED
    BY <1>7, <2>1, <2>2, ActKeepsWindow
<1>8. ASSUME NEW outcome \in {"ok", "failed"}, Observe(outcome)
      PROVE  LoopInv'
  <2>1. /\ EndTurn(outcome) /\ pc = "tool"
        /\ UNCHANGED <<recent, calls, loop_window, elapsed, spent>>
    BY <1>8 DEF Observe
  <2>2. TypeOK' /\ ErrorsInv'
    BY <2>1, EndTurnTyped DEF TypeOK
  <2> QED
    BY <2>1, <2>2 DEF SuffixInv, NoThirdInWindow
<1>9. CASE Tick
  BY <1>9 DEF Tick, TypeOK, ErrorsInv, SuffixInv, NoThirdInWindow
<1>10. CASE UNCHANGED vars
  BY <1>10 DEF vars, TypeOK, ErrorsInv, SuffixInv, NoThirdInWindow
<1> QED
  BY <1>1, <1>2, <1>3, <1>5, <1>6, <1>7, <1>8, <1>9, <1>10
     DEF Next, Step, OutOfTurns, OutOfTime, OutOfBudget

LEMMA LoopAlways == Spec => []LoopInv
<1>1. LoopInv /\ [Next]_vars => LoopInv'
  BY LoopInductive
<1> QED
  BY LoopInit, <1>1, PTL DEF Spec

-----------------------------------------------------------------------------
(* The loop's state is well-typed: it never begins more turns than         *)
(* max_iterations and counts at most three errors in a row.                *)
THEOREM TypeCorrect == Spec => []TypeOK
<1>1. LoopInv => TypeOK
  BY DEF LoopInv
<1> QED
  BY <1>1, LoopAlways, PTL

(* No call is executed a third time within the window of recent calls.     *)
THEOREM NoThirdCall == Spec => []NoThirdInWindow
<1>1. LoopInv => NoThirdInWindow
  BY DEF LoopInv
<1> QED
  BY <1>1, LoopAlways, PTL

(* "no_progress" is reported for three failed turns in a row and for       *)
(* nothing else.                                                           *)
THEOREM GivesUpExactlyWhenStuck == Spec => []GivesUpWhenStuck
<1>1. LoopInv => GivesUpWhenStuck
  <2> SUFFICES ASSUME LoopInv PROVE GivesUpWhenStuck
    OBVIOUS
  <2> USE DEF LoopInv, TypeOK, ErrorsInv
  <2>1. Len(outcomes) \in Nat /\ errors \in 0 .. 3
    BY LenProperties
  <2>2. CASE errors = 3
    BY <2>1, <2>2 DEF GivesUpWhenStuck, Stuck
  <2>3. CASE errors < 3
    <3>1. ~Stuck
      <4> SUFFICES ASSUME Stuck PROVE FALSE
        OBVIOUS
      <4>1. Len(outcomes) - errors \in Len(outcomes) - 2 .. Len(outcomes)
        BY <2>1, <2>3
      <4> QED
        BY <2>1, <2>3, <4>1 DEF Stuck
    <3> QED
      BY <2>3, <3>1 DEF GivesUpWhenStuck
  <2> QED
    BY <2>1, <2>2, <2>3
<1> QED
  BY <1>1, LoopAlways, PTL

\* While the model is asked there was still room under the ceiling.
SpendingInv ==
  /\ spent \in Nat
  /\ spent <= MaxCost + Dearest
  /\ pc = "asking" => spent <= MaxCost

(* The ceiling on a run's cost is exceeded by one reply at most.           *)
THEOREM OvershootIsOneReply == Spec => []OvershootsOneReply
<1> USE LoopAssumption DEF SpendingInv
<1>1. Init => SpendingInv
  BY DEF Init
<1>2. SpendingInv /\ [Next]_vars => SpendingInv'
  <2> SUFFICES ASSUME SpendingInv, [Next]_vars
               PROVE  SpendingInv'
    OBVIOUS
  <2>1. ASSUME Reply, pc' # "asking"
        PROVE  SpendingInv'
    BY <2>1 DEF Reply
  <2>2. CASE Ask
    BY <2>2 DEF Ask, TooDear
  <2>3. ASSUME NEW reason, Stop(reason)
        PROVE  SpendingInv'
    BY <2>3 DEF Stop, Finish
  <2>4. CASE Raise
    BY <2>4 DEF Raise, Finish
  <2>5. ASSUME NEW outcome \in {"ok", "failed"}, EndTurn(outcome)
        PROVE  pc' # "asking"
    BY <2>5 DEF EndTurn, Finish, NextTurn
  <2>6. CASE Answer \/ Garbled \/ \E sig \in Signatures : Loop(sig) \/ Act(sig)
    BY <2>1, <2>5, <2>6 DEF Answer, Garbled, Loop, Act, Finish
  <2>7. ASSUME NEW outcome \in {"ok", "failed"}, Observe(outcome)
        PROVE  SpendingInv'
    BY <2>5, <2>7 DEF Observe
  <2>8. CASE Tick
    BY <2>8 DEF Tick
  <2>9. CASE UNCHANGED vars
    BY <2>9 DEF vars
  <2> QED
    BY <2>2, <2>3, <2>4, <2>6, <2>7, <2>8, <2>9
       DEF Next, Step, OutOfTurns, OutOfTime, OutOfBudget
<1>3. SpendingInv => OvershootsOneReply
  BY DEF OvershootsOneReply
<1> QED
  BY <1>1, <1>2, <1>3, PTL DEF Spec
=============================================================================
