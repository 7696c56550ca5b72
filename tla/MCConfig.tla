--------------------------------- MODULE MCConfig ---------------------------------
(***************************************************************************)
(* The instances of Config that TLC checks: every combination of options   *)
(* in a single target, and pairs of targets, one of them broken, under     *)
(* every filter.                                                           *)
(***************************************************************************)
EXTENDS Config

SomeNames == {"home", "me", "proj", "tmp", "srv", "ci", "vmtest.toml", "boot",
              "k", "disk", "r", "d", "fw", "init"}

Tmp   == Abs(<<"tmp">>)
Start == <<"home", "me", "proj">>
MyHome == <<"home", "me">>

Here     == Rel(<<"vmtest.toml">>)
Below    == Rel(<<"ci", "vmtest.toml">>)
Elsewhere == Abs(<<"srv", "vmtest.toml">>)

Share(host, writable) == [host |-> host, at |-> "/data", writable |-> writable]

AllTargets ==
  [name: {"", "a"}, image: {{}, {Empty}, {Rel(<<"disk">>)}}, uefi: BOOLEAN,
   kernel: {{}, {Empty}, {Rel(<<"k">>)}, {Abs(<<"boot", "k">>)}}, kargs: {{}, {"ro"}},
   rootfs: {Root, Rel(<<"r">>), Empty}, bios: {{}, {Rel(<<"fw">>)}},
   mounts: {{}, {Share(Rel(<<"d">>), TRUE)}, {Share(Abs(<<"d">>), FALSE)}},
   command: {"", "-", "true"}]

Plain(name) == [name |-> name, image |-> {}, uefi |-> FALSE, kernel |-> {Rel(<<"k">>)},
                kargs |-> {}, rootfs |-> Root, bios |-> {}, mounts |-> {}, command |-> "true"]
Broken(name) == [Plain(name) EXCEPT !.kernel = {}]
NoBios(name, uefi) == [Broken(name) EXCEPT !.image = {Rel(<<"disk">>)}, !.uefi = uefi,
                                           !.bios = {Empty}]

FileOf(path, ts, filter) == [from |-> "file", path |-> path, targets |-> ts, filter |-> filter]

SingleFiles == {FileOf(p, <<t>>, {"", "a"}) : p \in {Here, Below, Elsewhere},
                                        t \in AllTargets \cup {NoBios("a", u) : u \in BOOLEAN}}
PairFiles == {FileOf(Below, <<t, u>>, f) :
                t \in {Plain("a"), Broken("a")}, u \in {Plain("b"), Broken("b")},
                f \in SUBSET {"a", "b"}}
OneLiners == [from: {"args"}, kernel: {Root, Rel(<<"k">>), Abs(<<"boot", "k">>)},
              kargs: {{}, {"ro"}}, rootfs: {Root, Rel(<<"r">>)}, command: {"", "-", "true"}]

AllInputs == SingleFiles \cup PairFiles \cup OneLiners

\* The default vmtest.toml with one kernel target.
PlainFile == {FileOf(Here, <<Plain("a")>>, {"a"})}
=============================================================================
