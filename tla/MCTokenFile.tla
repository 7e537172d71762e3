---------------------------- MODULE MCTokenFile ------------------------------
(* TokenFile with payloads of up to seven characters: one to three in the    *)
(* last group (a single one encodes nothing), both url-safe digits, and both *)
(* patterns of alternating bits.                                             *)
EXTENDS TokenFile

Alphabet == {0, 21, 42, Minus, Underscore}

MCPayloads == {p \in SeqOf(Alphabet, 5) : Len(p) % 4 \in {0, 2, 3} /\ p # <<>>}
    \cup [1..7 -> {21, Minus, Underscore}]

OnePayload == {<<21, Minus>>}
==============================================================================
