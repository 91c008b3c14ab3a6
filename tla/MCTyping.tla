-------------------------------- MODULE MCTyping --------------------------------
(* Instances of Typing for TLC. *)
EXTENDS Typing, TLC

TwoLetters == {"a", "b"}
TheCharacters == TwoLetters \cup Blanks \cup {"X", "Y", "Z"}
OneKeyword == {<<"a", "b">>}
TwoPhrases == {<<"b">>, <<"b", " ", "b">>}

(* What is pasted is two characters long and what is typed is one;         *)
(* recased, each is one longer.                                            *)
LongText  == <<"X", "Y">>
ShortText == <<"Z">>
Texts(pasted, typed) ==
    [t \in pasted \cup typed |->
        [text |-> IF t \in pasted THEN LongText ELSE ShortText,
         fast |-> t \in typed, undoable |-> TRUE]]
AllExpansions == Texts(OneKeyword, TwoPhrases)
TwoRenderings == LongText :> <<"X", "Y", "Y">> @@ ShortText :> <<"Z", "Z">>

Limits(type, delete, other) ==
    [k \in Kinds |-> CASE k = "type"   -> type
                       [] k = "delete" -> delete
                       [] k = "other"  -> other]

MixLimit == Limits(3, 1, 1)
=============================================================================
