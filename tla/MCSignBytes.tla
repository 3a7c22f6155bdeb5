----------------------------- MODULE MCSignBytes -----------------------------
(* SignBytes with bytes of two bits: a 32-bit field holds lengths below 256. *)
EXTENDS SignBytes, SequencesExt

MCRadix  == 4
MCDomain == <<0, 1, 0, 0, 3>>

MCChains == {<<>>, <<1>>, <<1, 1>>}

Pad   == [i \in 1 .. 252 |-> 0]
Field == <<0, 0, 0, 0>>  \* the field of an empty AuthInfo, as part of the data

\* A short body; one that ends like a field; one whose length is cut off to 1 and
\* that goes on like a field; the rest of a v2 string after the first four bytes
\* of the tag, which is as long as these four bytes read as a number.
MCBodies == {<<>>, <<1>>, <<2, 0>>, <<1>> \o Field, <<1>> \o Field \o Pad,
             <<3, 0, 0, 0, 0, 0, 0, 0, 1, 1, 0, 0, 0, 2, 2, 0>>}

MCAuths == {<<>>, <<2>>, Field, Pad \o Field}
==============================================================================
