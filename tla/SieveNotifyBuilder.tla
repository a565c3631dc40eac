------------------------ MODULE SieveNotifyBuilder ------------------------
(***************************************************************************)
(* build_notify_message and add_header (src/sieve/script.c, lines          *)
(* 321-405): the notify template is scanned character by character; the    *)
(* tokens $from$, $env-from$, $subject$, $text$ and $text[N]$ are expanded *)
(* through the message accessors, every other run of text is copied up to  *)
(* the next '$'.  One behaviour is one call: the loop of line 352 is one   *)
(* action per iteration.                                                   *)
(*                                                                         *)
(* A template is a sequence of one-character strings.  A header value is   *)
(* an opaque token (the decoded header, charset_parse_mimeheader's         *)
(* result), the body part is BodyLen opaque octets.  The N of $text[N]$    *)
(* is the size_t n of line 367, kept modulo 2^64 as four 16-bit limbs.     *)
(***************************************************************************)
EXTENDS Naturals, Integers, Sequences, FiniteSets

CONSTANTS
    Templates,  \* the notify->message strings considered
    BodyLen     \* octets in the decoded first text part

ASSUME BuilderAssumption == BodyLen \in 1 .. 9

\* size_t: 64 bits as four limbs of 16 bits, least significant first
LimbBits == 16
Limbs == 4
Base == 2 ^ LimbBits
Zero == [i \in 1 .. Limbs |-> 0]

\* the character codes of the characters templates are made of
Ord == [ch \in {"$", "[", "]", "-", "0", "1", "2", "5", "6", "8", "4", "7",
                "3", "9", "b", "c", "e", "f", "j", "m", "n", "o", "r", "s",
                "t", "u", "v", "x"} |->
          CASE ch = "$" -> 36 [] ch = "[" -> 91 [] ch = "]" -> 93
            [] ch = "-" -> 45 [] ch = "0" -> 48 [] ch = "1" -> 49
            [] ch = "2" -> 50 [] ch = "3" -> 51 [] ch = "4" -> 52
            [] ch = "5" -> 53 [] ch = "6" -> 54 [] ch = "7" -> 55
            [] ch = "8" -> 56 [] ch = "9" -> 57 [] ch = "b" -> 98
            [] ch = "c" -> 99 [] ch = "e" -> 101 [] ch = "f" -> 102
            [] ch = "j" -> 106 [] ch = "m" -> 109 [] ch = "n" -> 110
            [] ch = "o" -> 111 [] ch = "r" -> 114 [] ch = "s" -> 115
            [] ch = "t" -> 116 [] ch = "u" -> 117 [] ch = "v" -> 118
            [] ch = "x" -> 120]
Chars == DOMAIN Ord
Digits == {"0", "1", "2", "3", "4", "5", "6", "7", "8", "9"}

\* the tokens of lines 353-366
TokFrom    == <<"$", "f", "r", "o", "m", "$">>
TokEnvFrom == <<"$", "e", "n", "v", "-", "f", "r", "o", "m", "$">>
TokSubject == <<"$", "s", "u", "b", "j", "e", "c", "t", "$">>
TokText    == <<"$", "t", "e", "x", "t">>

\* what the decoded headers and the body part expand to
Headers == {"From", "EnvFrom", "Subject"}
Body == [k \in 1 .. BodyLen |-> <<"octet", k>>]
OutSyms == Chars \cup Headers \cup {Body[k] : k \in 1 .. BodyLen}

VARIABLES
    tmpl,     \* the template msg
    c,        \* the cursor c; Len(tmpl) + 1 is the terminating NUL
    out,      \* the output buffer
    getbody,  \* i->getbody is registered
    hasText,  \* getbody finds a text part with a decoded body
    hdrs      \* the headers (or envelope From) the message has

vars == <<tmpl, c, out, getbody, hasText, hdrs>>

TypeOK ==
    /\ tmpl \in Templates
    /\ c \in 1 .. Len(tmpl) + 2
    /\ out \in Seq(OutSyms)
    /\ getbody \in BOOLEAN /\ hasText \in BOOLEAN
    /\ hdrs \in SUBSET Headers

(***************************************************************************)
(* Helpers.                                                                *)
(***************************************************************************)
\* *c, with the NUL terminator past the end
At(i) == IF i <= Len(tmpl) THEN tmpl[i] ELSE "NUL"

\* !strncasecmp(c, w, Len(w)) at position i (templates are lower case)
Matches(i, w) == i + Len(w) - 1 <= Len(tmpl) /\ SubSeq(tmpl, i, i + Len(w) - 1) = w

\* n = n * 10 + (*c - '0') in size_t arithmetic: the addend is taken modulo
\* 2^64 and the carry out of the top limb is lost
MulAdd(n, d) ==
    LET dl == IF d >= 0 THEN <<d, 0, 0, 0>>
              ELSE <<Base + d, Base - 1, Base - 1, Base - 1>>
        t1 == n[1] * 10 + dl[1]
        t2 == n[2] * 10 + dl[2] + t1 \div Base
        t3 == n[3] * 10 + dl[3] + t2 \div Base
        t4 == n[4] * 10 + dl[4] + t3 \div Base
    IN  <<t1 % Base, t2 % Base, t3 % Base, t4 % Base>>

\* the loop of line 374 over the characters lo .. hi
Number(lo, hi) ==
    LET f[k \in (lo - 1) .. hi] ==
            IF k = lo - 1 THEN Zero
            ELSE LET prev == f[k - 1] IN MulAdd(prev, Ord[tmpl[k]] - 48)
    IN  f[hi]

\* size > n for a size below 2^16
Exceeds(size, n) == n[1] < size /\ \A i \in 2 .. Limbs : n[i] = 0

\* add_header: the decoded value, or nothing when the header is missing
Header(h) == IF h \in hdrs THEN <<h>> ELSE <<>>

\* lines 378-384: the first text part, cut to n octets when n is non-zero
\* and smaller than its size
BodyText(n) ==
    IF ~hasText THEN <<>>
    ELSE IF n # Zero /\ Exceeds(BodyLen, n) THEN SubSeq(Body, 1, n[1])
    ELSE Body

\* the first ']' at or after position i, or 0 when the template has none
CloseAfter(i) ==
    IF \E j \in i .. Len(tmpl) : tmpl[j] = "]"
    THEN CHOOSE j \in i .. Len(tmpl) :
            tmpl[j] = "]" /\ \A k \in i .. j - 1 : tmpl[k] # "]"
    ELSE 0

\* which branch of the if-chain a position takes
IsFrom(i)    == Matches(i, TokFrom)
IsEnvFrom(i) == ~IsFrom(i) /\ Matches(i, TokEnvFrom)
IsSubject(i) == ~IsFrom(i) /\ ~IsEnvFrom(i) /\ Matches(i, TokSubject)
IsText(i)    == /\ ~IsFrom(i) /\ ~IsEnvFrom(i) /\ ~IsSubject(i)
                /\ getbody /\ Matches(i, TokText) /\ At(i + 5) \in {"[", "$"}

(***************************************************************************)
(* One iteration of the loop "while ( *c )" each.                          *)
(***************************************************************************)
ExpandHeader(tok, h) ==
    /\ c <= Len(tmpl)
    /\ out' = out \o Header(h)
    /\ c' = c + Len(tok)
    /\ UNCHANGED <<tmpl, getbody, hasText, hdrs>>

ExpandFrom    == IsFrom(c) /\ ExpandHeader(TokFrom, "From")
ExpandEnvFrom == IsEnvFrom(c) /\ ExpandHeader(TokEnvFrom, "EnvFrom")
ExpandSubject == IsSubject(c) /\ ExpandHeader(TokSubject, "Subject")

\* $text$: n stays 0 and c steps over the '$' (lines 370-372)
ExpandTextWhole ==
    /\ c <= Len(tmpl)
    /\ IsText(c)
    /\ At(c + 5) = "$"
    /\ out' = out \o BodyText(Zero)
    /\ c' = c + 6
    /\ UNCHANGED <<tmpl, getbody, hasText, hdrs>>

\* mutant: c steps over the ']' only, leaving the closing '$' to be copied
ExpandTextLimitedNoSkip ==
    /\ c <= Len(tmpl)
    /\ IsText(c)
    /\ At(c + 5) = "["
    /\ CloseAfter(c + 6) # 0
    /\ LET j == CloseAfter(c + 6) IN
          /\ out' = out \o BodyText(Number(c + 6, j - 1))
          /\ c' = j + 1
    /\ UNCHANGED <<tmpl, getbody, hasText, hdrs>>

\* $text[...: digits are accumulated up to the next ']' and c += 2 skips
\* "]$" whatever the two characters are; the body part is fetched after
ExpandTextLimited ==
    /\ c <= Len(tmpl)
    /\ IsText(c)
    /\ At(c + 5) = "["
    /\ CloseAfter(c + 6) # 0
    /\ LET j == CloseAfter(c + 6) IN
          /\ out' = out \o BodyText(Number(c + 6, j - 1))
          /\ c' = j + 2
    /\ UNCHANGED <<tmpl, getbody, hasText, hdrs>>

\* no ']' before the terminator: the loop of line 374 reads on past the NUL;
\* what it then reads is undefined, the model stops there
ExpandTextUnclosed ==
    /\ c <= Len(tmpl)
    /\ IsText(c)
    /\ At(c + 5) = "["
    /\ CloseAfter(c + 6) = 0
    /\ c' = Len(tmpl) + 2
    /\ UNCHANGED <<tmpl, out, getbody, hasText, hdrs>>

\* lines 396-401: copy up to the next '$' after the first character
CopyPlain ==
    /\ c <= Len(tmpl)
    /\ ~IsFrom(c) /\ ~IsEnvFrom(c) /\ ~IsSubject(c) /\ ~IsText(c)
    /\ LET k == IF \E j \in c + 1 .. Len(tmpl) : tmpl[j] = "$"
                THEN CHOOSE j \in c + 1 .. Len(tmpl) :
                        tmpl[j] = "$" /\ \A m \in c + 1 .. j - 1 : tmpl[m] # "$"
                ELSE Len(tmpl) + 1
       IN  /\ out' = out \o SubSeq(tmpl, c, k - 1)
           /\ c' = k
    /\ UNCHANGED <<tmpl, getbody, hasText, hdrs>>

Init ==
    /\ tmpl \in Templates
    /\ c = 1
    /\ out = <<>>
    /\ getbody \in BOOLEAN
    /\ hasText \in BOOLEAN
    /\ hdrs \in SUBSET Headers

Next ==
    \/ ExpandFrom \/ ExpandEnvFrom \/ ExpandSubject
    \/ ExpandTextWhole \/ ExpandTextLimited \/ ExpandTextUnclosed
    \/ CopyPlain

\* the loop runs on one thread and every iteration moves c forward
Spec == Init /\ [][Next]_vars /\ WF_vars(Next)

Done == c > Len(tmpl)

(***************************************************************************)
(* The expansion the spec's table (section 4.5) describes, as a reference: *)
(* each token is replaced, $text[N]$ for a decimal N keeps the first N     *)
(* octets of the body part, and any other character is copied, a lone '$'  *)
(* included, with scanning resumed after it.                               *)
(***************************************************************************)
\* "$text[" d1 .. dk "]$" at position i, with k >= 1 decimal digits
RefTextN(i, k) ==
    /\ k >= 1
    /\ Matches(i, <<"$", "t", "e", "x", "t", "[">>)
    /\ i + 7 + k <= Len(tmpl)
    /\ \A m \in i + 6 .. i + 5 + k : tmpl[m] \in Digits
    /\ tmpl[i + 6 + k] = "]" /\ tmpl[i + 7 + k] = "$"

\* N < BodyLen for the digits at lo .. hi, without computing N
RefKeep(lo, hi) ==
    LET sig == {m \in lo .. hi : \E q \in lo .. m : tmpl[q] # "0"}
        v   == IF sig = {} THEN 0 ELSE Ord[tmpl[hi]] - 48
    IN  IF Cardinality(sig) <= 1 /\ v < BodyLen THEN v ELSE BodyLen

RefBody(k) == IF hasText THEN SubSeq(Body, 1, k) ELSE <<>>

RECURSIVE Expected(_)
Expected(i) ==
    IF i > Len(tmpl) THEN <<>>
    ELSE IF Matches(i, TokFrom) THEN Header("From") \o Expected(i + 6)
    ELSE IF Matches(i, TokEnvFrom) THEN Header("EnvFrom") \o Expected(i + 10)
    ELSE IF Matches(i, TokSubject) THEN Header("Subject") \o Expected(i + 9)
    ELSE IF Matches(i, TokText \o <<"$">>) THEN RefBody(BodyLen) \o Expected(i + 6)
    ELSE IF \E k \in 1 .. Len(tmpl) : RefTextN(i, k)
         THEN LET k == CHOOSE k \in 1 .. Len(tmpl) : RefTextN(i, k)
              IN  RefBody(RefKeep(i + 6, i + 5 + k)) \o Expected(i + 8 + k)
    ELSE <<tmpl[i]>> \o Expected(i + 1)

(***************************************************************************)
(* Properties.                                                             *)
(***************************************************************************)
\* When the loop of build_notify_message stops at the terminator with a body
\* accessor registered, the notify text is the spec's expansion of the
\* template: tokens found at every position the run-copying of lines
\* 396-401 lands on, $text[N] truncation as in lines 370-384.
ExpandsAsSpecified ==
    (getbody /\ c = Len(tmpl) + 1) => out = Expected(1)

\* What the spec's table promises of every template: once the loop stops,
\* the scan has ended exactly at the terminating NUL (never past it, as
\* c += 2 at line 375 and the digit loop of line 374 can take it) and, with
\* a body accessor registered, the text is the spec's expansion.
ExpandsExactly ==
    Done => /\ c = Len(tmpl) + 1
            /\ getbody => out = Expected(1)
====
