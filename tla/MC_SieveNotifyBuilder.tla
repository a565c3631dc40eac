---------------------- MODULE MC_SieveNotifyBuilder ----------------------
(* Templates made of up to four pieces: tokens, token fragments and text, *)
(* so that tokens meet each other, lone '$' and cut-off brackets.         *)
EXTENDS SieveNotifyBuilder, SequencesExt

Pieces == {<<"$">>, <<"x">>, <<"f", "r", "o", "m">>, <<"e", "n", "v", "-">>,
           <<"s", "u", "b", "j", "e", "c", "t">>, <<"t", "e", "x", "t">>,
           <<"[", "2">>, <<"]", "$">>}

Joined(ps, k) == {FlattenSeq(s) : s \in SeqOf(ps, k)}

\* every "$text[" is followed by decimal digits up to its ']' or the end
DigitBrackets(t) ==
    \A i \in 1 .. Len(t) :
        (i + 5 <= Len(t) /\ SubSeq(t, i, i + 5) = <<"$", "t", "e", "x", "t", "[">>)
          => \A m \in i + 6 .. Len(t) :
                (\A q \in i + 6 .. m : t[q] # "]") => t[m] \in Digits \cup {"]"}

MCTemplates == {t \in Joined(Pieces, 4) : DigitBrackets(t)}

\* $text[0]$, then N = 2^64 + 2, then a "$text[" never closed
DefectTemplates ==
    {<<"$", "t", "e", "x", "t", "[", "0", "]", "$">> \o
     <<"$", "t", "e", "x", "t", "[">> \o
     <<"1","8","4","4","6","7","4","4","0","7","3","7","0","9","5","5","1","6","1","8">>
     \o <<"]", "$">> \o <<"$", "t", "e", "x", "t", "[", "2">>}

\* the message has a text body part, so that truncation shows
WithBody == hasText
====
