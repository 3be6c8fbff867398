------------------------------- MODULE Memory -------------------------------
(***************************************************************************)
(* The memories of an agent (05-agents/agentkit/memory.py): what each one  *)
(* resends of the same conversation.  All but SummaryMemory keep every     *)
(* message and cut when messages() is called, so they are operators on the *)
(* log; SummaryMemory rewrites its history as messages are added.          *)
(*                                                                         *)
(* A message is its role and the length of its content, and is told from   *)
(* another by its position in the log.                                     *)
(***************************************************************************)
EXTENDS Integers, SequencesExt

CONSTANTS
  Sizes,            \* lengths of contents, in characters
  MaxTokens,        \* max_tokens of TokenWindowMemory and ConversationBudget
  MaxMessageTokens, \* max_message_tokens of ConversationBudget
  ThresholdTokens,  \* threshold_tokens of SummaryMemory
  KeepRecent,       \* keep_recent of SummaryMemory
  MaxMessages       \* bound: messages of a conversation

ASSUME MemoryAssumption ==
  /\ Sizes \subseteq Nat
  /\ {MaxTokens, MaxMessageTokens, ThresholdTokens, KeepRecent, MaxMessages} \subseteq Nat

VARIABLES
  log,      \* history of the other memories: every message added since clear
  kept,     \* SummaryMemory.history, as positions in log
  gist,     \* the messages its summary was made from; {} when summary is ""
  erased,   \* history: the messages a blank summary replaced
  settled   \* history: the last add returned

memvars == <<log, kept, gist, erased, settled>>

MemoryInit == log = <<>> /\ kept = <<>> /\ gist = {} /\ erased = {} /\ settled = TRUE

CharsPerToken == 4
Cost(size) == size \div CharsPerToken + 4
EstimateTokens(messages) == FoldLeft(LAMBDA n, m : n + Cost(m.size), 0, messages)

\* What of a list is among some, in the list's order.
Among(list, some) ==
  FlattenSeq([i \in DOMAIN list |-> IF list[i] \in some THEN <<list[i]>> ELSE <<>>])
Pinned(messages) == Among(messages, {m \in ToSet(messages) : m.role = "system"})
Rest(messages) == Among(messages, {m \in ToSet(messages) : m.role # "system"})
PinnedIn(messages) == {p \in DOMAIN messages : messages[p].role = "system"}
TurnsIn(messages) == DOMAIN messages \ PinnedIn(messages)
AtPositions(messages, positions) == [i \in DOMAIN positions |-> messages[positions[i]]]

\* Python's s[-n:], where -0 is 0, and s[:-n].
LastN(s, n) == IF n = 0 THEN s ELSE SubSeq(s, Max({1, Len(s) - n + 1}), Len(s))
AllButLastN(s, n) == IF n = 0 THEN <<>> ELSE SubSeq(s, 1, Len(s) - n)

Window(messages, k) == Pinned(messages) \o LastN(Rest(messages), k)

\* Mutant: what does not fit is skipped, and the scan goes on.
TokenWindow_skipping(messages) ==
  LET Keep(message, acc) ==
        IF Cost(message.size) > acc.budget THEN acc
        ELSE [acc EXCEPT !.out = <<message>> \o @, !.budget = @ - Cost(message.size)]
      start == [out |-> <<>>, budget |-> MaxTokens - EstimateTokens(Pinned(messages))]
  IN  Pinned(messages) \o FoldRight(Keep, Rest(messages), start).out

\* Newest first, until one does not fit.
TokenWindow(messages) ==
  LET Keep(message, acc) ==
        IF acc.full \/ Cost(message.size) > acc.budget THEN [acc EXCEPT !.full = TRUE]
        ELSE [acc EXCEPT !.out = <<message>> \o @, !.budget = @ - Cost(message.size)]
      start == [out |-> <<>>, full |-> FALSE,
                budget |-> MaxTokens - EstimateTokens(Pinned(messages))]
  IN  Pinned(messages) \o FoldRight(Keep, Rest(messages), start).out

\* "\n...[truncated]" is 15 characters, added to what the limit left.
Capped(message) ==
  LET limit == MaxMessageTokens * CharsPerToken
  IN  IF message.size > limit THEN [message EXCEPT !.size = limit + 15] ELSE message
ConversationBudget(messages) == TokenWindow([i \in DOMAIN messages |-> Capped(messages[i])])

\* VectorMemory.recall, given the similarity of each message to the query: the
\* best, a later message before an equal earlier one, back in their order.
Recall(messages, score, k) ==
  LET others == TurnsIn(messages)
      Before(i) == {j \in others : score[j] > score[i] \/ (score[j] = score[i] /\ j > i)}
  IN  Among([i \in DOMAIN messages |-> i],
            {i \in others : score[i] > 0 /\ Cardinality(Before(i)) < k})

-----------------------------------------------------------------------------
\* _maybe_compress: nothing to do under the threshold, or without older turns.
NeedsNoSummary(history) ==
  LET rest == Among(history, TurnsIn(log'))
  IN  \/ EstimateTokens(AtPositions(log', rest)) <= ThresholdTokens
      \/ AllButLastN(rest, KeepRecent) = <<>>

\* Mutant: the previous summary is not folded in.
Summarized_afresh(history, text) ==
  LET rest == Among(history, TurnsIn(log'))
      older == ToSet(AllButLastN(rest, KeepRecent))
  IN  /\ kept' = Among(history, PinnedIn(log')) \o LastN(rest, KeepRecent)
      /\ gist' = IF text = "blank" THEN {} ELSE older
      /\ erased' = IF text = "blank" THEN erased \union older ELSE erased
      /\ settled' = TRUE

\* The previous summary is folded in unless it is blank.
Summarized(history, text) ==
  LET rest == Among(history, TurnsIn(log'))
      older == ToSet(AllButLastN(rest, KeepRecent)) \union gist
  IN  /\ kept' = Among(history, PinnedIn(log')) \o LastN(rest, KeepRecent)
      /\ gist' = IF text = "blank" THEN {} ELSE older
      /\ erased' = IF text = "blank" THEN erased \union older ELSE erased
      /\ settled' = TRUE

\* The message stays when summarize_fn raises, and add raises.
SummaryFailed(history) == kept' = history /\ settled' = FALSE /\ UNCHANGED <<gist, erased>>

Add(role, size) ==
  /\ Len(log) < MaxMessages
  /\ log' = Append(log, [role |-> role, size |-> size])
  /\ LET history == Append(kept, Len(log'))
     IN  \/ /\ NeedsNoSummary(history)
            /\ kept' = history /\ settled' = TRUE /\ UNCHANGED <<gist, erased>>
         \/ /\ ~NeedsNoSummary(history)
            /\ Summarized(history, "some") \/ Summarized(history, "blank") \/ SummaryFailed(history)

Clear == log # <<>> /\ log' = <<>> /\ kept' = <<>> /\ gist' = {} /\ erased' = {} /\ settled' = TRUE

MemoryNext == (\E role \in {"system", "user"}, size \in Sizes : Add(role, size)) \/ Clear

MemorySpec == MemoryInit /\ [][MemoryNext]_memvars

-----------------------------------------------------------------------------
WithinBudget(messages) == EstimateTokens(messages) <= MaxTokens
\* The pinned messages and the longest run of the newest others that fits.
LongestFit(messages, window) ==
  LET rest == Rest(messages)
      tails == {SubSeq(rest, i, Len(rest)) : i \in 1 .. Len(rest) + 1}
      fitting == {t \in tails : WithinBudget(Pinned(messages) \o t)} \union {<<>>}
  IN  \E t \in fitting :
        /\ window = Pinned(messages) \o t
        /\ \A u \in fitting : Len(u) <= Len(t)

\* "Never drop the system message" (memory.py:29), "recency wins" (memory.py:134)
\* and "get back messages that fit" (memory.py:271).  Every window is the
\* system messages and the longest run of newest others within its limit (k = 0
\* is no limit); it exceeds the budget only by the system messages; a recall
\* prefers no less similar message and keeps the order; and no message is so
\* large that the newest one, with room for max_message_tokens and 7, is lost.
WindowsHold ==
  LET budgeted == ConversationBudget(log)
      capped == [i \in DOMAIN log |-> Capped(log[i])]
  IN  /\ \A k \in 0 .. MaxMessages :
           /\ Pinned(Window(log, k)) = Pinned(log)
           /\ IsSuffix(Rest(Window(log, k)), Rest(log))
           /\ Len(Rest(Window(log, k))) = IF k = 0 THEN Len(Rest(log)) ELSE Min({k, Len(Rest(log))})
      /\ LongestFit(log, TokenWindow(log))
      /\ LongestFit(capped, budgeted)
      /\ WithinBudget(budgeted) \/ budgeted = Pinned(capped)
      /\ \A n \in 1 .. Len(Rest(log)) :
           n * (MaxMessageTokens + 7) + EstimateTokens(Pinned(capped)) <= MaxTokens
             => Len(Rest(budgeted)) >= n
      /\ \A score \in [DOMAIN log -> 0 .. 2], k \in 0 .. 2 :
           LET found == Recall(log, score, k)
           IN  /\ Len(found) <= k
               /\ \A i, j \in DOMAIN found : i < j => found[i] < found[j]
               /\ \A p \in DOMAIN log \ ToSet(found) :
                    log[p].role = "user" /\ score[p] > 0 =>
                      Len(found) = k /\ \A i \in DOMAIN found : score[found[i]] >= score[p]

\* "so nothing is silently dropped when compression happens repeatedly"
\* (memory.py:184): every message is in the history, or the summary was made
\* from it, unless a later summary came back blank; system messages stay in the
\* history; and an add that returned leaves the rest under the threshold or
\* within keep_recent, which 0 turns off.
NothingForgotten ==
  /\ ToSet(kept) \union gist \union erased = DOMAIN log
  /\ PinnedIn(log) \subseteq ToSet(kept)
  /\ LET rest == Among(kept, TurnsIn(log))
     IN  /\ \A i, j \in DOMAIN rest : i < j => rest[i] < rest[j]
         /\ \A p \in gist \union erased, i \in DOMAIN rest : p < rest[i]
         /\ settled => \/ EstimateTokens(AtPositions(log, rest)) <= ThresholdTokens
                       \/ KeepRecent = 0 \/ Len(rest) <= KeepRecent
=============================================================================
