-------------------------------- MODULE FastBuffer --------------------------------
(***************************************************************************)
(* The buffer of the engine (core/src/engine/buffer.rs): a ring of         *)
(* characters that grows by doubling until it has MaxCapacity slots and    *)
(* then overwrites the oldest ones.  Its readers go through it from the    *)
(* oldest character (buffer_string), in two slices (as_str) or backwards   *)
(* from the latest one (the extract functions).                            *)
(***************************************************************************)
EXTENDS Naturals, Sequences

CONSTANTS Chars, Alphanumeric, Whitespace,
          Nul,              \* '\0', of an empty slot
          InitialCapacity,  \* INITIAL_BUFFER_CAPACITY
          MaxCapacity       \* FAST_BUFFER_CAPACITY

(* The code has 512 and 1048576. *)
CapacitiesFit ==
    /\ InitialCapacity \in Nat \ {0} /\ MaxCapacity \in Nat
    /\ InitialCapacity <= MaxCapacity

VARIABLES data, \* the slots; slot i of the code is data[i + 1]
          head, \* the slot that is written next
          len   \* how many are in use

ring == <<data, head, len>>

Capacity == Len(data)
Empty(n) == [i \in 1..n |-> Nul]

RingInit ==
    /\ data = Empty(InitialCapacity)
    /\ head = 0
    /\ len = 0

-----------------------------------------------------------------------------
(* The readers *)

Slot(i) == data[(i % Capacity) + 1]

(* The slot of the oldest character *)
Start == (head + Capacity - len) % Capacity

(* buffer_string *)
Contents == [i \in 1..len |-> Slot(Start + i - 1)]

(* as_str *)
Slices ==
    IF Start + len <= Capacity THEN SubSeq(data, Start + 1, Start + len)
    ELSE SubSeq(data, Start + 1, Capacity) \o SubSeq(data, 1, len - (Capacity - Start))

(* What extract_trigger_word, extract_tail_word, extract_suffix_candidates *)
(* and has_dictionary_intent find j characters from the end                *)
Back(j) == (head + Capacity - j) % Capacity
FromEnd(j) == Slot(Back(j))

-----------------------------------------------------------------------------
(* The writers *)

(* grow: twice the slots, the oldest character in the first *)
Grown ==
    LET double == IF 2 * Capacity < MaxCapacity THEN 2 * Capacity ELSE MaxCapacity
    IN  [i \in 1..double |-> IF i <= len THEN Slot(Start + i - 1) ELSE Nul]

Store(slots, at, c) ==
    /\ data' = [slots EXCEPT ![at + 1] = c]
    /\ head' = (at + 1) % Len(slots)
    /\ len' = IF len < Len(slots) THEN len + 1 ELSE len

Push(c) ==
    IF len < Capacity \/ Capacity >= MaxCapacity THEN Store(data, head, c)
    ELSE Store(Grown, len, c)

(* pop, n times: the last n characters are overwritten, the latest first *)
Drop(n) ==
    /\ data' = [i \in 1..Capacity |-> IF \E j \in 1..n : i = Back(j) + 1 THEN Nul ELSE data[i]]
    /\ head' = Back(n)
    /\ len' = len - n

(* pop, pop_n *)
PopN(n) == Drop(IF n < len THEN n ELSE len)

(* Of the last n characters, pop_word pops the m that are whitespace       *)
(* first, then all of the class of the one before.                         *)
WordIs(m, n) ==
    /\ \A j \in 1..m : FromEnd(j) \in Whitespace
    /\ m < len => FromEnd(m + 1) \notin Whitespace /\ m < n
    /\ \A j \in m+1..n : /\ FromEnd(j) \notin Whitespace
                         /\ FromEnd(j) \in Alphanumeric <=> FromEnd(m + 1) \in Alphanumeric
    /\ n < len => \/ FromEnd(n + 1) \in Whitespace
                  \/ ~(FromEnd(n + 1) \in Alphanumeric <=> FromEnd(m + 1) \in Alphanumeric)

PopWord == \E n \in 0..len : (\E m \in 0..n : WordIs(m, n)) /\ Drop(n)

Clear ==
    /\ data' = Empty(Capacity)
    /\ head' = 0
    /\ len' = 0

RingNext ==
    \/ \E c \in Chars : Push(c)
    \/ \E n \in 1..MaxCapacity : PopN(n)
    \/ PopWord
    \/ Clear

RingSpec == RingInit /\ [][RingNext]_ring

-----------------------------------------------------------------------------
(* The head is a slot, and no more characters are in use than there are    *)
(* slots.                                                                  *)
RingTypeOK ==
    /\ data \in Seq(Chars \cup {Nul})
    /\ Capacity \in InitialCapacity..MaxCapacity
    /\ head \in 0..Capacity - 1
    /\ len \in 0..Capacity

(* All readers read the same text, wherever the ring has wrapped: as_str's *)
(* two slices, and the walk back from the head that the triggers are       *)
(* matched by, are what buffer_string returns.                             *)
ReadersAgree ==
    /\ Slices = Contents
    /\ \A j \in 1..len : FromEnd(j) = Contents[len + 1 - j]

(* What was taken back or cleared is in no slot any more                   *)
(* (test_buffer_clear_zeroes_memory).                                      *)
NothingLeftBehind ==
    \A i \in 1..Capacity : (\A j \in 1..len : i # Back(j) + 1) => data[i] = Nul

(* The ring wraps only at its full capacity: until then the oldest         *)
(* character is in the first slot, so grow has nothing to unroll, and      *)
(* every position the readers compute is its own remainder.                *)
WrapsOnlyWhenFull == Capacity < MaxCapacity => Start = 0

(* Through the ring the engine has the text typed so far, up to            *)
(* MaxCapacity characters of it: nothing is lost or repeated as the ring   *)
(* grows, wraps, or is popped beyond its first slot.                       *)
TheText == INSTANCE TypedText WITH text <- Contents, MaxLength <- MaxCapacity
KeepsText == TheText!Spec
=============================================================================
