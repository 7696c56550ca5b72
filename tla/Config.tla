---------------------------------- MODULE Config ----------------------------------
(***************************************************************************)
(* From the command line or vmtest.toml to the QEMU invocation of each     *)
(* target: main.rs config, vmtest.rs, Qemu::new and what command_script    *)
(* takes from it.  Only the options with conditions on them are modelled.  *)
(***************************************************************************)
EXTENDS Naturals, Sequences, FiniteSets

CONSTANTS
  Inputs,    \* what vmtest may be given: one-liners and config files
  Names,     \* of files and directories
  TempDir,   \* std::env::temp_dir
  Cwd,       \* where vmtest was started, from the root
  Home       \* $HOME, from the root

(***************************************************************************)
(* A path is absolute or relative, and has components.  "." leads nowhere, *)
(* so it is a component only of the path that has no other.                *)
(***************************************************************************)
Path == [abs : BOOLEAN, parts : Seq(Names)]
Abs(parts) == [abs |-> TRUE, parts |-> parts]
Rel(parts) == [abs |-> FALSE, parts |-> parts]
Root  == Abs(<<>>)
Empty == Rel(<<>>)
Dot   == Rel(<<".">>)

\* PathBuf::push
Push(dir, p) == IF p.abs THEN p ELSE [dir EXCEPT !.parts = @ \o p.parts]

\* Where a path leads on the host, and the file it names: an empty path, which
\* leads nowhere, names none.
Where(p) == IF p = Dot THEN Cwd ELSE IF p.abs THEN p.parts ELSE Cwd \o p.parts
Locate(p) == IF p = Empty THEN <<"no such file">> ELSE Where(p)

Parent(p) == [p EXCEPT !.parts = SubSeq(@, 1, Len(@) - 1)]

\* Option<T>: {} is None, {x} is Some(x).
Option(S) == {o \in SUBSET S : \A x, y \in o : x = y}
The(option) == CHOOSE x \in option : TRUE

\* config.rs
Mount  == [host : Path, at : STRING, writable : BOOLEAN]
Target == [name : STRING, image : Option(Path), uefi : BOOLEAN,
           kernel : Option(Path), kargs : Option(STRING), rootfs : Path,
           bios : Option(Path), mounts : SUBSET Mount, command : STRING]

\* main.rs: Args, with the names that the filter matches and what is in the file.
Args == [from : {"args"}, kernel : Path, kargs : Option(STRING), rootfs : Path,
         command : STRING]
File == [from : {"file"}, path : Path \ {Root, Empty}, targets : Seq(Target),
         filter : SUBSET STRING]

ASSUME InputsAssumption == Inputs \subseteq Args \cup File
ASSUME NamesAssumption  == Names \subseteq STRING \ {"."} /\ "init" \in Names
ASSUME HostAssumption   == TempDir \in Path /\ {Cwd, Home} \subseteq Seq(Names)

VARIABLES
  pc,       \* "start", "validate", "run" or one of Ends
  input,    \* what vmtest was given
  base,     \* Vmtest.base
  targets,  \* the targets of Vmtest.config
  idx,      \* how many of them were set up
  qemu      \* {} or the Qemu of target idx

Ends == {"done", "unreadable", "rejected", "panicked"}

vars == <<pc, input, base, targets, idx, qemu>>

Init == /\ pc = "start"
        /\ input \in Inputs
        /\ base = Empty /\ targets = <<>> /\ idx = 0 /\ qemu = {}

-----------------------------------------------------------------------------
(***************************************************************************)
(* main.rs: config.                                                        *)
(***************************************************************************)
\* The only target of the one-liner interface, named for the kernel's file.
OneLiner(a) == [name |-> a.kernel.parts[Len(a.kernel.parts)], image |-> {}, uefi |-> FALSE,
                kernel |-> {a.kernel}, kargs |-> a.kargs, rootfs |-> a.rootfs,
                bios |-> {}, mounts |-> {}, command |-> a.command]

\* A kernel without a file name, such as "/", is an unwrap of None.
FromArgs ==
  /\ pc = "start" /\ input.from = "args"
  /\ \/ /\ input.kernel.parts # <<>>
        /\ pc' = "validate"
        /\ base' = Abs(Cwd)
        /\ targets' = <<OneLiner(input)>>
     \/ /\ input.kernel.parts = <<>>
        /\ pc' = "panicked"
        /\ UNCHANGED <<base, targets>>
  /\ UNCHANGED <<input, idx, qemu>>

\* The targets that the filter retains, in the order of the file.
Retained(file) == {i \in DOMAIN file.targets : file.targets[i].name \in file.filter}
InOrder(S) == {pick \in [1..Cardinality(S) -> S] :
                 \A j, k \in DOMAIN pick : j < k => pick[j] < pick[k]}

\* The file or the filter may be unreadable.
FromFile ==
  /\ pc = "start" /\ input.from = "file"
  /\ \/ /\ pc' = "validate"
        /\ base' = Parent(input.path)
        /\ \E pick \in InOrder(Retained(input)) :
             targets' = [k \in DOMAIN pick |-> input.targets[pick[k]]]
     \/ /\ pc' = "unreadable"
        /\ UNCHANGED <<base, targets>>
  /\ UNCHANGED <<input, idx, qemu>>

(***************************************************************************)
(* vmtest.rs: validate_config, resolve_path, setup_qemu.                   *)
(***************************************************************************)
\* Mutant of ValidTarget: any target boots something.
ValidWithoutBoot(t) == t.name # "" /\ t.command # ""

\* Mutant of ValidTarget: a bios without uefi is let through.
ValidWithIdleBios(t) ==
  /\ t.name # "" /\ t.command # ""
  /\ (t.image = {}) # (t.kernel = {})
  /\ t.uefi => t.image # {}
  /\ t.kargs # {} => t.kernel # {}
  /\ Empty \notin t.image \cup t.kernel

ValidTarget(t) ==
  /\ t.name # ""
  /\ (t.image = {}) # (t.kernel = {})
  /\ t.uefi => t.image # {}
  /\ t.bios # {} => t.uefi
  /\ t.kargs # {} => t.kernel # {}
  /\ Empty \notin t.image \cup t.kernel
  /\ t.command # ""

Validate ==
  /\ pc = "validate"
  /\ pc' = IF \A i \in DOMAIN targets : ValidTarget(targets[i]) THEN "run" ELSE "rejected"
  /\ UNCHANGED <<input, base, targets, idx, qemu>>

Resolve(p) == Push(base, p)

ResolveMount(m) == [m EXCEPT !.host = Resolve(@)]

Resolved(t) ==
  [t EXCEPT !.image = {Resolve(p) : p \in @}, !.kernel = {Resolve(p) : p \in @},
            !.rootfs = Resolve(@), !.bios = {Resolve(p) : p \in @},
            !.mounts = {ResolveMount(m) : m \in @}]

(***************************************************************************)
(* qemu.rs: Qemu::new.                                                     *)
(***************************************************************************)
\* gen_init appends one string to the other: an empty rootfs leaves the
\* host's own directory.
HostInitDir(rootfs) == IF rootfs = Empty THEN TempDir
                                         ELSE [rootfs EXCEPT !.parts = @ \o TempDir.parts]
HostInit(rootfs) == Push(HostInitDir(rootfs), Rel(<<"init">>))

\* Mutant of GuestInit: the host's path of the script.
GuestInitUnstripped(rootfs) == HostInit(rootfs)

GuestInit(rootfs) == Push(TempDir, Rel(<<"init">>))

\* guest_init_path refuses a relative temporary directory.
InitPossible == TempDir.abs

\* Mutant of ExportPath: an empty path is passed on.
ExportPathAsIs(p) == p

\* plan9_fs_args writes "." for an empty path.
ExportPath(p) == IF p = Empty THEN Dot ELSE p

Export(tag, p, ro) == [tag |-> tag, path |-> ExportPath(p), ro |-> ro]

\* The hash of a mount's resolved host path is its tag.
MountTag(m) == <<"mount", m.host>>

\* Mutant of MountExport: the flag is not inverted.
MountExportWritable(m) == Export(MountTag(m), m.host, m.writable)

MountExport(m) == Export(MountTag(m), m.host, ~m.writable)

\* uefi_firmware_args tries the places where distributions install OVMF.
Ovmf == Abs(<<"usr", "share", "OVMF_CODE.fd">>)

Interactive(t) == t.command = "-" /\ t.image = {}

\* The image or the kernel with its rootfs, the shared directory, the mounts;
\* then what run_command and setup_vm read from the same target.
Invocation(t) ==
  [disk    |-> t.image,
   bios    |-> IF t.uefi THEN (IF t.bios # {} THEN t.bios ELSE {Ovmf}) ELSE {},
   kernel  |-> t.kernel,
   append  |-> t.kargs,
   init    |-> IF t.image = {} THEN {GuestInit(t.rootfs)} ELSE {},
   exports |-> {Export(<<"/dev/root">>, t.rootfs, FALSE) : k \in t.kernel}
                 \cup {Export(<<"vmtest-shared">>, base, FALSE)}
                 \cup {MountExport(m) : m \in t.mounts},
   interactive |-> Interactive(t),
   cd      |-> IF t.image = {} /\ t.rootfs = Root THEN {base} ELSE {},
   mounts  |-> {[tag |-> MountTag(m), at |-> m.at, ro |-> ~m.writable] : m \in t.mounts}]

\* Mutant of MoreTargets: one round too many.
MoreTargetsOffByOne == idx <= Len(targets)

MoreTargets == idx < Len(targets)

\* Ui::run sets up one target after the other.  An index out of range, a script
\* that cannot be written or a missing QEMU fails this target only; a target
\* with nothing to boot is a panic.
SetUp ==
  /\ pc = "run" /\ MoreTargets
  /\ idx' = idx + 1
  /\ \/ qemu' = {} /\ UNCHANGED pc
     \/ /\ idx' \in DOMAIN targets /\ InitPossible
        /\ LET t == Resolved(targets[idx'])
           IN  IF t.image \cup t.kernel # {}
                 THEN qemu' = {Invocation(t)} /\ UNCHANGED pc
                 ELSE pc' = "panicked" /\ UNCHANGED qemu
  /\ UNCHANGED <<input, base, targets>>

Finish ==
  /\ pc = "run" /\ ~MoreTargets
  /\ pc' = "done"
  /\ UNCHANGED <<input, base, targets, idx, qemu>>

Stopped == pc \in Ends /\ UNCHANGED vars

Next == FromArgs \/ FromFile \/ Validate \/ SetUp \/ Finish \/ Stopped

Spec == Init /\ [][Next]_vars

-----------------------------------------------------------------------------
\* The target of the current Qemu, as the user wrote it.
Current == targets[idx]

\* The directory that holds the config file, or that vmtest was started in.
ConfigDir == IF input.from = "args" THEN Cwd ELSE Where(Parent(input.path))

\* Where the documentation says that an option's path points (config.md:19).
Documented(p) == IF p.abs THEN p.parts ELSE ConfigDir \o p.parts

TypeOK ==
  /\ pc \in {"start", "validate", "run"} \cup Ends
  /\ input \in Inputs
  /\ base.abs \in BOOLEAN
  /\ idx \in 0..Len(targets)
  /\ qemu = {} \/ \E q \in {The(qemu)} : qemu = {q} /\ q.interactive \in BOOLEAN

\* A configuration that passed validation never reaches the panic of Qemu::new
\* ("Config validation should've enforced XOR"): the only panic left is a
\* kernel argument that names no file.
ValidationPreventsPanic ==
  pc = "panicked" => input.from = "args" /\ input.kernel.parts = <<>>

\* validate_config refuses a target with options that Qemu::new would not use: a
\* bios without uefi, kernel arguments without a kernel, an image and a kernel.  So
\* of an accepted target they take effect: it boots from exactly one of the two, with
\* firmware just if it asks for uefi, namely the bios if there is one, and with the
\* kernel arguments.  It refuses no rootfs, which takes effect only with a kernel
\* (against config.md:41), and no empty bios.
OptionsTakeEffect ==
  \A q \in qemu :
    /\ (q.disk = {}) # (q.kernel = {})
    /\ q.bios # {} <=> Current.uefi
    /\ Current.bios # {} => q.bios = {Resolve(p) : p \in Current.bios}
    /\ Current.kargs # {} => q.append = Current.kargs /\ q.kernel # {}
    /\ (\E e \in q.exports : e.tag = <<"/dev/root">>) <=> Current.kernel # {}

\* Every host path on QEMU's command line names the file that the config's
\* author meant, wherever vmtest was started, and the directory shared as
\* /mnt/vmtest is that of the config.
PathsFromConfigDir ==
  \A q \in qemu :
    /\ {Locate(p) : p \in q.disk \cup q.kernel}
         = {Documented(p) : p \in Current.image \cup Current.kernel}
    /\ \E e \in q.exports : e.tag = <<"vmtest-shared">> /\ Locate(e.path) = ConfigDir
    /\ \A e \in q.exports : e.tag = <<"/dev/root">> => Locate(e.path) = Documented(Current.rootfs)

\* The guest's init= names, inside the rootfs it was given, the very file that
\* gen_init wrote on the host (for a rootfs that names a directory).
GuestInitIsHostInit ==
  \A q \in qemu : Current.rootfs # Empty =>
    \A i \in q.init :
      Documented(Current.rootfs) \o i.parts = Locate(HostInit(Resolve(Current.rootfs)))

\* Every mount that setup_vm will ask the guest for has an export with its tag,
\* of the path that was meant, and as read-only as the guest is told.
MountsHaveExports ==
  \A q \in qemu :
    /\ \A m \in q.mounts : \E e \in q.exports : e.tag = m.tag /\ e.ro = m.ro
    /\ \A m \in Current.mounts : \E e \in q.exports, g \in q.mounts :
         g.at = m.at /\ g.tag = e.tag /\ Locate(e.path) = Documented(m.host) /\ e.ro = ~m.writable

(***************************************************************************)
(* What the documentation says and the code does not do.                   *)
(***************************************************************************)
\* bash's cd with no argument goes home; the agent runs in the root, which a
\* relative argument starts from.
GuestCwd(q) == LET dir == The(q.cd)
               IN  IF dir = Empty THEN Home ELSE dir.parts

\* test.rs:282 "for kernel targets, current working directory is preserved in
\* the guest", where the guest's root is the host's.
CwdPreserved == \A q \in qemu : q.cd # {} => GuestCwd(q) = ConfigDir
=============================================================================
