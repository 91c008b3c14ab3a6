-------------------------------- MODULE TypedText --------------------------------
(***************************************************************************)
(* What the engine takes its buffer for: the text typed so far, of which   *)
(* it keeps the most recent characters, and of which a key takes back the  *)
(* last one, the last few, the last word or everything.                    *)
(* FastBuffer implements this.                                             *)
(***************************************************************************)
EXTENDS Naturals, Sequences

CONSTANTS Chars, Alphanumeric, Whitespace, MaxLength

VARIABLE text

Init == text = <<>>

Recent(s) == IF Len(s) > MaxLength THEN Tail(s) ELSE s

Type(c) == text' = Recent(Append(text, c))

Keep(n) == text' = SubSeq(text, 1, n)

Erase(n) == Keep(IF n < Len(text) THEN Len(text) - n ELSE 0)

(* Of one class: both alphanumeric or neither, and no whitespace *)
Alike(c, d) == {c, d} \cap Whitespace = {} /\ (c \in Alphanumeric <=> d \in Alphanumeric)

(* All but the first n characters are the last word and the whitespace     *)
(* behind it.                                                              *)
LastWordAfter(n) ==
    \E m \in n..Len(text) :
        /\ \A i \in m+1..Len(text) : text[i] \in Whitespace
        /\ m > 0 => text[m] \notin Whitespace /\ n < m
        /\ \A i \in n+1..m : Alike(text[i], text[m])
        /\ n > 0 => ~Alike(text[n], text[m])

EraseWord == \E n \in 0..Len(text) : LastWordAfter(n) /\ Keep(n)

Forget == text' = <<>>

Next ==
    \/ \E c \in Chars : Type(c)
    \/ \E n \in 1..MaxLength : Erase(n)
    \/ EraseWord
    \/ Forget

Spec == Init /\ [][Next]_text
=============================================================================
