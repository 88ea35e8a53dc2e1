------------------------------ MODULE MCCliArgs ------------------------------
(* Instances of CliArgs for TLC. *)
EXTENDS CliArgs

Nodes2 == {"/dev/a", "/dev/b"}
Num(v, f) == [val |-> v, form |-> f]

\* Every kind of value for every key.
Arguments ==
    {[key |-> k] : k \in {"-V", "-h", "selinux", "enforcing", "other"}}
    \cup {[key |-> k, dev |-> d] : k \in {"root", "blob", "crypt"}, d \in Nodes2 \cup {"no node"}}
    \cup {[key |-> "logLevel", num |-> n] :
            n \in {Num(0, "number"), Num(5, "number"), Num(6, "number"), Num(0, "empty"),
                   Num(4, "junk"), Num(Bits32 + 4, "number")}}
    \cup {[key |-> "pcrExtend", num |-> n] :
            n \in {Num(10, "number"), Num(PcrCount, "number"), Num(0, "empty"), Num(3, "junk"),
                   Num(9, "range")}}
    \cup {[key |-> "pcrSeal", list |-> l] :
            l \in {<<>>, <<10, 11>>, <<7, 8, 7>>, <<30>>, <<10, PcrCount>>}}

\* Three arguments of any kind, and command lines that switch the storage on.
Three == UNION {[1 .. n -> Arguments] : n \in 0 .. 3}
Storage ==
    {<<[key |-> "blob", dev |-> "/dev/a"]>> \o s : s \in
        [1 .. 2 -> {a \in Arguments : a.key \in {"pcrSeal", "crypt"}}]}
SomeArgvs == Three \cup Storage
==============================================================================
