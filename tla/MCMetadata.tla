----------------------------- MODULE MCMetadata ------------------------------
(* Instances of Metadata for TLC. *)
EXTENDS Metadata

\* Headers and tables of texts, good and bad.
Head4(crypto) == <<"1", "ext4", "ro", crypto>>
Verity == <<"v1", "2", "2", "3", "4", "sha256">>
Integrity == <<"3", "8", "2", "mac::k1", "fix", "crypt::k2">>
Text(h, t) == <<h, FF, t, FF>>

GoodTexts ==
    {Text(Head4("plain"), <<>>), Text(Head4("verity"), Verity),
     Text(<<"1.5", "ext4", "rw", "integrity">>, Integrity),
     Text(<<"1", "longertype", "ro", "integrity">>, <<"3", "2", "1", "fix">>), Text(Head4("crypt-verity"), Verity)}

\* Signed, but not by a tool that knows the format.
BadTexts ==
    {Text(<<"2", "ext4", "ro", "plain">>, <<>>), Text(<<"1">>, <<>>), Text(<<"1", "ext4">>, <<>>),
     Text(<<"1", "ext4", "wo", "plain">>, <<>>), Text(<<"1", "ext4", "ro">>, <<>>),
     Text(Head4("none"), <<>>), <<Head4("plain"), FF>>, <<Head4("plain")>>,
     Text(Head4("verity"), <<>>), Text(Head4("verity"), <<"v1", "2">>),
     Text(Head4("verity"), SubSeq(Verity, 1, 5)),
     Text(Head4("verity"), Verity \o [i \in 1 .. 8 |-> "a"]),
     Text(Head4("integrity"), <<>>), Text(Head4("integrity"), <<"3">>),
     Text(Head4("integrity"), <<"3", "2", "1">>),
     Text(Head4("integrity"), <<"3", "2", "6">> \o [i \in 1 .. 6 |-> "mac::k1"]),
     Text(Head4("integrity"), <<"3", "2", "9">> \o [i \in 1 .. 10 |-> "a"])}

Sig == <<"signature">>
SomeSigned == {<<Append(t, NUL), <<Sig>>>> : t \in GoodTexts \cup BadTexts}

\* Regions as a tool writes them, with another signature, with a text that nobody has signed,
\* and without an end of the text.
Region(t, sig) == [i \in 1 .. MetaSize |-> IF i <= Len(t) THEN t[i]
                                           ELSE IF i = Len(t) + 2 THEN sig ELSE NUL]
Regions ==
    {Region(t, Sig) : t \in GoodTexts \cup BadTexts}
    \cup {Region(t, <<"other">>) : t \in GoodTexts}
    \cup {Region(Text(<<"1", "ext2", "rw", "plain">>, <<>>), Sig),
          [i \in 1 .. MetaSize |-> Sig]}

\* Partitions with a file system before the region, and some that are too small for one.
Fs == <<"fs">>
SomePartitions ==
    {<<Fs>> \o r : r \in Regions} \cup {SubSeq(r, 2, MetaSize) : r \in Regions}
    \cup {Region(Text(Head4("plain"), <<>>), Sig)}

SomeKeyFiles == {("k1" :> <<18>>) @@ ("k2" :> a) : a \in {<<255, 1>>, <<1, 2, 3>>, <<>>}} \cup {<<>>}
\* Nothing, a key that fits, and one that is too long, under one of the descriptions.
SomeKeyrings == {<<>>} \cup {"k2" :> a : a \in {<<7>>, <<1, 2, 3, 4>>}}
TwoKeys == <<"k1", "k2">>
SomeKeyOf == ("mac::k1" :> "k1") @@ ("crypt::k2" :> "k2")
SomeNumerals == ("2" :> 2) @@ ("3" :> 3) @@ ("8" :> 8) @@ ("4" :> 99)

SomeBeginnings == "longertype" :> "longer"

AllFaults == {"add_key", "open", "size", "seek", "read", "short", "gone", "crypto", "keyctl"}
MixedFaults == {{}, AllFaults \ {"short"}, AllFaults}
OnlyShortReads == {{"short"}}
==============================================================================
