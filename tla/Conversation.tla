---------------------------- MODULE Conversation ----------------------------
(***************************************************************************)
(* ConversationService (07-java-integration, ConversationService.java):    *)
(* the turns of one conversation in a Redis list.  An append is three      *)
(* commands, push, trim and expire, sent one after the other; each may be  *)
(* lost, or be executed and its reply lost (a command times out after two  *)
(* seconds), and either ends the append: the error is logged and swallowed.*)
(*                                                                         *)
(* A tenant's key is told from another's by its prefix, so the key of one  *)
(* conversation stands for each of them.                                   *)
(***************************************************************************)
EXTENDS Integers, SequencesExt, FiniteSets

CONSTANTS
  Requests,  \* requests that append to the conversation
  MaxTurns   \* MAX_TURNS

ASSUME ConversationAssumption == MaxTurns \in Nat \ {0}

VARIABLES
  list,       \* the list under the key; no key when it is empty
  ttl,        \* whether the key expires: "none" or "set"
  step,       \* of the append of each request: "none", "push", "trim", "expire", "over"
  cutOff,     \* history: since the last expire, an append broke off after its push
  sinceTrim   \* history: pushes since the list was last trimmed

convars == <<list, ttl, step, cutOff, sinceTrim>>

\* The last message of the request, whatever its role, and the answer.
Turn(r) == <<[of |-> r, role |-> "message"], [of |-> r, role |-> "assistant"]>>
ConversationInit ==
  /\ list = <<>> /\ ttl = "none"
  /\ step = [r \in Requests |-> "none"]
  /\ cutOff = FALSE /\ sinceTrim = 0

\* append: without a conversation id there is nothing to do.
Append_(r, hasId) == step' = [step EXCEPT ![r] = IF hasId THEN "push" ELSE "over"]

\* rightPushAll: both entries in one command; a new key has no expiry.
Pushed(r) ==
  /\ list' = list \o Turn(r)
  /\ sinceTrim' = sinceTrim + 1
  /\ UNCHANGED ttl

\* Mutant: one entry too many.
Newest_off_by_one(entries) == SubSeq(entries, Max({1, Len(entries) - 2 * MaxTurns}), Len(entries))
\* trim(key, -MAX_TURNS * 2, -1): the newest entries stay.
Newest(entries) == SubSeq(entries, Max({1, Len(entries) - 2 * MaxTurns + 1}), Len(entries))
Trimmed(r) ==
  /\ list' = Newest(list)
  /\ sinceTrim' = 0
  /\ UNCHANGED ttl

\* expire(key, TTL): nothing on a key that is gone.
Refreshed(r) ==
  /\ ttl' = IF list = <<>> THEN "none" ELSE "set"
  /\ UNCHANGED <<list, sinceTrim>>

Executed(r) ==
  CASE step[r] = "push" -> Pushed(r)
    [] step[r] = "trim" -> Trimmed(r)
    [] step[r] = "expire" -> Refreshed(r)

\* Mutant: the chain ends with the trim.
Following_without_expire == [push |-> "trim", trim |-> "over", expire |-> "over"]
Following == [push |-> "trim", trim |-> "expire", expire |-> "over"]
Persisting(r) == step[r] \in DOMAIN Following
Acknowledged(r) ==
  /\ Persisting(r)
  /\ Executed(r)
  /\ step' = [step EXCEPT ![r] = Following[@]]
  /\ cutOff' = (cutOff /\ step[r] # "expire")
\* onErrorResume: the rest of the append is dropped.
ReplyLost(r) ==
  /\ Persisting(r)
  /\ Executed(r)
  /\ step' = [step EXCEPT ![r] = "over"]
  /\ cutOff' = (step[r] # "expire")
CommandLost(r) ==
  /\ Persisting(r)
  /\ step' = [step EXCEPT ![r] = "over"]
  /\ cutOff' = (cutOff \/ step[r] # "push")
  /\ UNCHANGED <<list, ttl, sinceTrim>>

\* The key expires, or the conversation is cleared (clear, which no endpoint calls).
Gone ==
  /\ list # <<>>
  /\ list' = <<>> /\ ttl' = "none" /\ sinceTrim' = 0 /\ cutOff' = FALSE
  /\ UNCHANGED step
KeyExpires == ttl = "set" /\ Gone
Clear == Gone

-----------------------------------------------------------------------------
\* The list alternates each user's message and its own answer, whatever appends
\* interleave and fail between their commands, and is no longer than MAX_TURNS
\* exchanges and the ones pushed since the last trim ("Bounding here means the
\* prompt we rebuild later cannot grow without limit").
HistoryWellFormed ==
  /\ Len(list) % 2 = 0
  /\ \A i \in 1 .. Len(list) \div 2 : \E r \in Requests : <<list[2 * i - 1], list[2 * i]>> = Turn(r)
  /\ Len(list) <= 2 * (MaxTurns + sinceTrim)

\* "Why a TTL is mandatory" (ConversationService.java:27): a conversation that
\* would never expire has an append under way that has not come to its expire, or
\* had one that broke off since.
ExpiresUnlessCutOff ==
  list # <<>> /\ ttl = "none" => cutOff \/ \E r \in Requests : step[r] \in {"trim", "expire"}
=============================================================================
