# deploy-core in TLA+

A verification project for `deploy-core`, the product-neutral deploy primitives an
installer and an on-host root agent share. It holds TLA+ modules that model the
crate's stateful and order-sensitive parts, TLC configurations that check them on
small instances, and TLAPS proofs for every value of the constants.

Paths below are relative to the repository; `PROJECT.json` maps every definition to
the lines it models.

## 1. The system

| Component | State it keeps | Operations | What is hard | What makes it correct |
|---|---|---|---|---|
| `generation` (+ `durability`) | a tree root: `active` symlink, `gen-<n>/`, `gen-<n>.tmp/`, `active.tmp` | `activate_generation` | crash at any system call, leftovers, index allocation, reload racing the unit | `active` names whole accepted material; an index is never reused; "changed" is durable |
| `release_trust` | one such tree: package, document, `epoch` record | seed, join bootstrap, replace, accept, chain replay, re-bootstrap; readers | the epoch floor over many calls, faults after the swap, concurrent callers | the floor never falls; each generation was vouched for |
| `trust_set` | none | the document's two readers | which reader is used where | the refusing reader guards what is served |
| `verify` | none | `verify_package` | the order of some fifteen checks, the unsigned hint, first-seen comparisons | accepts exactly what the policy allows |
| `roxyd_trust` | an mTLS tree of the same shape | `activate` with an X.509 validator and a reload unit | the reload | a unit serves what is active, but for one caught starting |
| `retain`, `retain/publish` | private unlinked copies, a disk budget, published outputs | retain, publish file, publish directory | no-clobber, visible-but-not-durable, two writers on one atomic | the budget is exact; an error says what was published |
| `package/*` | a prepared package, its binding record, a directory on disk | prepare, persist, reopen, finalize, publish, verify contents, upload | files changed between look and open; a limit met only after signing | what is published is exactly what was bound and signed |
| `payload` (+ `outer`) | a container file; an extraction in progress | write, rewrap, locate, walk, extract | footers inside other files, reads that split a field, a crash during extraction | readers invert writers; targets are whole |
| `content`, `image` | counters, a walker over a tar stream | `validate_image_archive` | nine ordered phases, every limit met exactly, what other tar readers make of the bytes | an accepted image is the declared one for every reader |
| `executor/bounded`, `handoff` | a child process, its pipes, a deadline | bounded run | deadline against a late exit, framing split by reads, deadlock of pipes | the result is the command's own; a run returns |
| `executor/channel` | a child process, a drain thread | open, wait, kill, drop | opening against `sudo`'s prompt, drain against a descendant | the bytes are the caller's; nothing is left behind |
| `executor` transfers, `engine`, `apply` | a host's artifact, `.previous`, the module store | diff, `put_file`, `hard_link_over`, `make_dir`, backup, place | a script that outlives its connection, a crash between two commands | no torn file; the rollback point; the baseline |
| `manifest` | none | two-stage parse, per-entry checks | refusal order | part of the verdict |
| `module_spec`, `render`, `systemd`, `layout`, `registration`, `bootroot_cmd`, `config_template`, `roxyd_selfupdate*` | none | text and paths | nothing a model checker reaches | |

How they interact. A release job prepares a **package** from files, signs and finalizes it,
and **publishes** it; all copies it makes are charged to one **retain** scope. The container
file travels, is grafted onto installers and stripped again, and reaches a host, where
**verify** judges it and **payload** extracts it. A trust package is handed to a door of
**release_trust**: the door reads the tree, decodes the member with **trust_set**, asks
**verify** for a verdict under a trust set built either from the delivered document
(self-admission) or from the active generation (accept), and hands the material to the
**generation** engine, which stages, re-validates the copy on disk, flushes, swaps
`active` and prunes. A module update compares digests (**engine**), backs up and places
artifacts (**apply**) over a transport of **executor**, which runs its commands bounded or
through a channel. Nothing in the crate locks a tree or a destination: serialization of
writers is left to the callers.

## 2. The modules

```
TrustRegister            what a tree promises: one register of accepted material
   ^ refined by             ^ used by
GenerationTree           ReleaseTrust <- PackageVerify (verdicts)
   |                        |    \
GenerationTreeProofs     MCReleaseTrust   TrustCatchUp -> MCTrustCatchUp
                            (TrustMints: the packages of the instances)
                         AdmissionProofs

PackageVerify -> TarWalk -> ImageArchive -> ImageContract (what it promises)
                               |                 |
                            Contents          MCImages (image archives for TLC)
                             /     \             |
                        Extract   Pipeline ------+-- MCPipeline
                           |                     |
  MCPackageVerify --- MCDelivery      WindowGuard, OuterWalk -> MCOuter
  Container -> Travel --+
  MCPackageVerify, Extract, Pipeline -> DeliveryProofs
  ReleaseTrust, Travel, WindowGuard -> AdmissionProofs

StagingDir -> HostUpdate -> MCHostUpdate      an artifact lands on a host
                 \-> HostUpdateProofs
Channel -> MCChannel, ChannelProofs           a long-lived channel to a command
BoundedRun -> MCBoundedRun, BoundedRunProofs  a command under limits and a deadline
Retention -> MCRetained, RetentionProofs      private copies under one disk budget
Publication -> MCRetained, PublicationProofs  durable no-clobber publication
```

### GenerationTree (`src/src/generation.rs`, `src/src/durability.rs`)

One action per system call of `activate_generation`: the refusal of malformed
material (`CallRefused`), the idempotent no-op (`MatchNoop`), the allocation, clearing a
leftover staging directory unlink by unlink, writing the files, validating the copy, the
two flushes around the finalising rename, clearing the scratch name, the link, the swap,
its flush, `is-active`, `reload`, and the prune. `pc` says which call is next.

The file system is held twice: what a reader sees (`gen`, `tmp`, `active`, `scratch`) and
the set of values each root entry may come back with after a power loss (`mayGen`,
`mayTmp`, `mayActive`, `mayScratch`). A rename or an unlink adds a value; `sync_dir` of
the root settles which names exist, `sync_dir` of a directory settles its contents. This
is the usual POSIX reading: unflushed operations may reach the disk in any order, each
name independently. File data is flushed by `write_file_0600`; a name is not flushed by
that.

`Fault` fails (or kills) the call at the system call it is at; nothing is undone, except
that a failing `is-active` reads as nothing to reload and a failing removal of a rejected
copy is ignored, as in the code. `PowerLoss` picks one surviving value per entry.

A tree is one of two kinds, chosen initially. With a unit (`reload_unit`, roxyd's tree), the
unit starts in three steps of its own time, `BeginUnit`, `LoadUnit` (it resolves `active`)
and `UnitReady`, and may stop at any of them; `is-active` succeeds for a running unit only,
so one that is still starting is not reloaded. Without (the release-trust tree), one reader
resolves the link and then reads `gen-<n>` file by file, as `active_generation_index` and
`generation_trust_set` do.

### TrustRegister

The abstract specification: `Install` publishes material under an index above every
earlier one, `Commit` makes it the only survivor of a power loss, `PowerLoss` puts back a
value not yet committed over. `GenerationTree` implements it
(`ImplementsRegister`), and `ReleaseTrust` is built on it.

### PackageVerify (`src/src/verify.rs`, the parse of `src/src/manifest.rs`)

`verify_package` as operators, one per function of the code, each returning `"ok"` or the
name of the refusal; a sequence of checks with early returns is `FirstOf`. A signature is
the key that made it; a key is its `key_id`. Two algorithms, both required. The container
framing, stage one of the manifest and its typed decode are each a flag of the package;
in `MCDelivery` the framing flag is what `Container` says of a real sequence of symbols.

### ReleaseTrust (`src/src/release_trust.rs`, `src/src/trust_set.rs`)

A call of each door runs as its reads and writes: `Gate`, `Probe`, `ReadRecord`,
`ReadDocument`, `Compare`, `Judge`, `Stage`, `Swap`, `Flush`, `Prune`. Each read resolves
`active` again, as the code does. `Judge` is the verdict under the door's own rules. A
chain runs its steps one after the other and reports how many were accepted. `Fault`,
`Kill` and `PowerLoss` interrupt a call anywhere. `promised` and `acked` are history: the
highest epoch a call reported as changed, or as accepted at all. The module is written for
several callers, but its runs have one at a time: see section 4.

### TrustCatchUp

The protocol the chain replay is documented for. The control plane is external: it pushes
the suffix the host is missing, counts `completed` from whichever arm it gets, and asks
`read_generation_state` when it has no answer.

### Contents, Pipeline (`src/src/package/*`)

`Contents` holds what `package` decides about bytes: the ceilings, the archive walk, the
checks of the contents, the upload, and the preparation record, as operators with verdicts.
`Pipeline` is the protocol: the first job stages its inputs one by one from files others
may edit, builds manifest and archive, and binds them; then it either finalizes what it
holds in memory, or persists a directory that a second job reopens file by file, with an
inspection before each open and a revalidation after the last copy. The directory's files
are inodes, so a name may be replaced between the inspection and the open and a file
edited after it was opened. The signer and whoever meddles are external. `used` is the disk
the call under way holds, peak by peak.

Abstractions: a digest is the bytes (digests are taken to be injective); lengths are in
units no shorter than the copy buffer; the atomicity of `publish_directory` is what
`Publication` establishes; the trust set's bytes and the release-build mark are left out.

### Container, Travel, Extract (`src/src/payload.rs`)

`Container` is the file layout over a sequence of symbols: base executable, six blocks and
the footer that locates them, the three writers, the probe for a footer of each version's
size, the overflow-checked validation of the offsets, `rewrap_trailer` and
`read_base_executable`. The magic, a version byte and a u64 field are one symbol each; the
partial output of a writer that fails is not modelled. `Travel` is what becomes of such a
file before it is read: grafted onto another base (`Graft`), wrapped again by a later
release (`Stack`), stripped to its base (`Strip`), altered in one symbol (`Alter`) or cut
(`Cut`), with what it was written from kept beside it for the property. `MCDelivery` bounds
the changes (`Hop`) and hands the file that arrives to the verifier.

`Extract` is `extract_to` by system call: staging directory, member by member, parents,
renames, flushes. Any call may fail, the process may be killed, and a power loss keeps or
loses each unflushed entry on its own. Removing the staging directory on return is taken to
succeed, the destination's own entry is its caller's to flush, and `create_dir_all` is one
step.

### TarWalk, ImageArchive, ImageContract (`src/src/content/*`, `src/src/image/*`)

`TarWalk` is the tar walker under both of its policies (an image archive, a layer), with
GNU and PAX extensions, the end mark and the zero tail, over counted streams.
`ImageArchive` is `validate_image_archive`: nine phases, the first fault is the verdict.
`ImageContract` says what it promises without the phases: which archives are the declared
image, what each limit is held against, and what eight more lenient tar readers find in the
same bytes.

Abstractions: every length is in blocks (no padding, no offset overflow), a digest is the
bytes, a name's length is its number of segments, a document is one block that says what it
parses to or the fault it has, the zero-tail allowance of 2048 blocks is 3. The gzip branch
of phase 8 and the verdicts behind it are unreachable once phase 7 has passed, which
`ImagesAreDeclared` checks and `docs/rfcs/0001-image-evidence-and-package-writer.md:122` intends. Soundness of a layer in the
contract is the walker's own rule; `ReadersAgree` is what that rule is worth.

### WindowGuard, OuterWalk (`src/src/payload/outer.rs`, `outer/framing.rs`)

`WindowGuard` follows zstd frames over real bytes, in reads of any size, and must refuse
before the decoder holds the offending field. A source is a list of frames, cut anywhere,
each `Formed`: fields as long as the descriptor says, stating the window `FrameWindow` gives,
and blocks up to one marked last; TLC evaluates `GuardAssumption`, which says so, on the
streams of the run. `OuterWalk` is the bounded walk over the
decoded archive read by read: the meters, the framing followed beneath the archive reader,
and the scan of an extension record too large for the framing allowance. Each is compared
with a reference written from the format rather than from the code (`FirstFault`,
`Promised`).

Abstractions: `BlockLen` cells stand for a tar block; a PAX number, key or character of a
value is one cell, so multi-digit lengths and decimal overflow are not explored; the `tar`
crate's reader is external, modelled from how the walk uses it; the sink reads each member
whole and does not fail. Two things the reference admits because the code does them: the
verdict on a stray tail that begins within one read of the allowance's end depends on how
the reads fall (`Io` or `TrailingArchiveBytes`, both refusals), and an override in a PAX
record that lies wholly past the allowance is never seen, as `framing.rs` documents.

### StagingDir, HostUpdate (`src/src/executor.rs`, `src/src/apply.rs`, `src/src/engine.rs`)

`StagingDir` is the choice of the directory a file is staged in, once as the process walks
it and once as the shell script does, as two operators; `WalksChecked` compares them over
every chain of up to three directories. `HostUpdate` follows one artifact: its destination,
the `.previous` beside it and its copy in the store. `put_file`, `hard_link_over` and
`make_dir` run command by command; on a shell transport they are scripts that keep going
when their caller is killed or loses its connection. The caller is external and modelled as
`apply.rs` requires: a durable journal written from `backup_previous_artifact`'s success,
and a resumed update that skips the backup the journal records. A host may have a `sync`
that does nothing; the properties that need one say so.

### Channel (`src/src/executor/channel.rs`)

Opening (password, sentinel, handoff line, `sudo` asking or not, refusing or hanging), the
start script, the drain thread with its held-back status line, and `wait`, `kill` and drop.
Pipes are sequences of tokens. Assumed: `STDERR_GRACE` runs out only once the drain has read
what the pipe holds, and a descendant that outlives the command prints no exit-status line.

### Retention (`src/src/retain.rs`)

Any number of `snapshot_from` calls over one `RetentionScope`. The shared budget is an
atomic: `grow` is its load and its compare-and-exchange as two actions (`GrowLoad`,
`GrowUpdate`), then the raise of the high-water mark, so that every interleaving of two
growing, shrinking and dropping writers is explored. Reads may be short, a write may land
fewer bytes than granted and the rest of the grant is returned, and any system call may
fail. A source is its length; the bytes written are its prefix. Handles on the copy are
cloned and dropped, the last one returns the charge, and the scope closes once nothing
holds it.

### Publication (`src/src/retain/publish.rs`)

`publish_file` and `publish_directory` one system call at a time, racing for one name
beside a process that is not this crate. The parent directory is held as in
`GenerationTree`: the visible entries (`dest`, `temp`) and what each may be after a power
loss (`mayDest`, `mayTemp`). A file goes out by `linkat`, which never replaces. A
directory goes out by a rename that does replace an *empty* directory, as the module's
documentation says: `NeverReplaces` states exactly that exception. An error after the
entry became visible is reported as published-but-not-durable, one before as nothing
published.

### BoundedRun (`src/src/executor/bounded.rs`, `handoff.rs`, `run_bounded` of `executor.rs`)

Two sides of three pipes. The engine's side is the code: `PumpTurn` is one turn of `pump`
(write, read and judge standard output, read and judge standard error), then `AwaitExit`,
`TerminateRelay`, `TerminateGroup`, `ReapWithin` and `finish`. A turn is one action because
the engine is the only reader and writer on its side, so what arrives between its `poll` and
its `read` is what arrives before the next turn.

The other side is what the engine runs. The supervisor script is part of the code and is
modelled line by line: sentinel, discard up to the handoff line, sleep, command, `wait`,
marker, `kill 0`, and the subshell's cancellation of the sleep. Its own two prints are the
shell's: with nobody left to read them, `printf` raises `SIGPIPE`, which the script does not
trap, and the script is `piped`, dead at that line, unless `sudo` or `sshd` in between still
takes the write (`ScriptPrints`). A command that writes unread is left to choose what it
does, and may go on. `sudo`, `ssh` and the command
are external: `sudo` may read the password line or not, refuse at any attempt, relay a signal
or not; a connection may be lost; the command reads and writes in any order within its
bounds, blocks on a full or empty pipe, and may leave a descendant that holds the pipes.

Standard error is a sequence of tokens, because every property is about whose bytes they are:
the command's own, those that look like an exit-status line, and the two halves of each word
of framing, which a read may split. Time is nondeterministic: the deadline, the framing
grace and the supervisor's sleep each run out by a step of their own.

## 3. The runs

| Run | Instance | Properties | Shows |
|---|---|---|---|
| `tree` | 3 indices, 2 files, 4 material sets (one rejected, one malformed), a tree with a reload unit and one with readers by index, 1 fault, 1 power loss, fair | `ActiveIsTrustworthy`, `ReaderNeverPairs`, `ChangedIsDurableAndPruned`, `UnitServesActive`, `ImplementsRegister`, `RetryConverges` | `active` always names whole accepted material, readers never pair files of two generations, "changed" is durable, the tree is one register, a retrying caller converges over every leftover, a unit serves the new material unless the query caught it starting on the old |
| `trust_doors` | one caller, 11 packages, all six doors, 3 installs, 1 fault, 1 power loss | `ChangedFloorSurvives`, `LiveSelfAdmits`, `SwapIsEarned` | the floor, vouching and self-admission over every sequence of calls |
| `trust_acked` | the rotation, seed and accept | `AcknowledgedFloorSurvives` (violated) | an acknowledged epoch can be lost |
| `catch_up` | rotation of 3, up to 7 installs, 2 faults, 1 power loss, fair | `CatchesUp` | a lagging host ends on the newest generation |
| `delivery` | two hops, two extractions, 1 fault, 1 kill, 1 power loss; beside them about 15,600 envelopes each delivered twice | `VerdictIsPolicy`, `ReadersInvertWriters`, `TargetsAreWhole`, `RedeliveryIsSafe` | the ordered checks are the policy; containers grafted, stacked, cut and altered are read exactly if a writer could have made them; extraction puts only whole artifacts in place, durably on success; hints, requests and tighter trust turn no verdict the wrong way |
| `pipeline` | up to two inputs, each limit swept across the value where it begins to hold, a second job given something else, two edits by others; some hundred image archives; frames and tar streams with reads of 1 to 3 | `HandleIsBound`, `LateRefusalIsDisk`, `UploadAgrees`, `ImagesAreDeclared`, `ReadersAgree`, `WindowHeld`, `WalkAgrees` | what is held and published is what was bound and signed; only disk refuses after preparation; a registry agrees; an accepted image is the declared one, for other readers too; the readers of the outer archive answer what the bytes deserve however the reads fall |
| `update` | 3 releases, a native and a shell transport, 2 calls, 2 link attempts, 6 inodes, 1 fault, 1 abandoned caller, 1 power loss, two of these at most, fair | `NeverTorn`, `RollbackPoint`, `BaselineOnDisk`, `UpdateCompletes` | no torn file under a name, `.previous` is what the update found, the recorded release is on disk, a resumed update completes |
| `channel` | four transports, pipes of one token, a word that looks like an exit-status line, a descendant that holds standard error, fair | `ExchangeIsTheCallers`, `NothingLeftBehind`, `Returns` | bytes are the caller's and the command's, nothing is left, every ending returns |
| `retained` | one file and one directory publication, outputs of 2 parts, a budget one part short of both, a foreign writer, 1 fault, 1 power loss; beside them two writers, sources of 0 to 3 bytes against `max_len` 2 and a budget of 3, 1 fault | `DestinationIsWhole`, `CleanFailurePublishesNothing`, `ReceiptIsDurable`, `NeverReplaces`, `BudgetIsExact`, `DiskIsCharged`, `SnapshotIsWholeSource` | the destination holds only whole verified outputs, a receipt is durable, an error says truly whether anything was published, nothing of another's is replaced; the budget is exact at every step and never exceeded, bytes on disk are charged, a snapshot is its whole source |
| `bounded_safety` | direct, sudo, ssh and ssh with sudo; limits of 1 byte against commands that write 2 | `ResultIsReal`, `StdinIsTheCallers`, `KillsAreTheRuns` | a returned output is the command's, whole and alone; breaches and failures are real; the command's input is the caller's; the engine's kills reach the run only, and a direct run whole |
| `bounded_live` | the transports with shorter commands | `Returns`, `OutlivesOnlyPiped` | a run returns at its deadline whoever holds the pipes and returns without one if the command keeps going; a command that outlives its run for good is one whose script died at a print nobody read |
| `bounded_outlived` | the same | `CommandDies` (violated) | the supervisor's own deadline does not always end the command |

The type invariants of `GenerationTree`, `Retention` and `Publication` are proved rather
than run.

Bounds. Three generations let one be live, one superseded and one staged, which is every
role an index can have at once; two files are enough for a partial directory; one power
loss per behaviour suffices because the state after it is again a fully flushed tree that
the other behaviours start from. The bounds of `retained` put each budget
strictly between one output and two, so that one writer can succeed only as the other fails
or lets go; sources go one byte past `max_len`, where the probe decides. The eleven
packages each defeat one check on one predecessor. Commands of the bounded run and the
channel write one byte more than their limit and than a pipe holds, which is every case the
limits and the pipes tell apart. In `update`, six inodes hold three releases with a torn or
abandoned copy of each; two overlapping calls are an abandoned script and its retry. In
`pipeline` every ceiling is given each value around the one the job needs; two edits are a
replacement and its undoing, and spoil one of three fields of a record (`Broken`: its
version, a digest and an optional name); a job built to carry one image is asked for as
another's once prepared, since nothing after preparation looks inside an image; reads of
up to three cells split a block of two in every way.
In `delivery` two hops are a graft and a change to it, or two grafts. `MaxGen` bounds
allocation in the guards; `CHECK_DEADLOCK FALSE` is set because a tree nobody calls, a run
that has returned, or a model that has used up its bounds, rightly does nothing.

`MCPipeline`, `MCDelivery` and `MCRetained` check components that do not share state side by side:
a behaviour is in one `part`, chosen initially, so the state counts add and do not multiply.

Fairness. `tree`: a call runs to its return (it is sequential code without waits) and the
caller calls again. `catch_up`: the same for the host, and the control plane keeps
retrying, as the documentation of the accept path assumes ("a control plane with bounded
retry"). `update`: a script or call under way runs to its end, is reaped, and the caller
resumes what its journal holds open. `channel`: the caller's thread, the settle timeout and
the drain run, as do the start script and a command that reads its input; nothing is
assumed of when a descendant goes or when a channel is ended. `bounded_live` and
`bounded_outlived`: the engine is one
thread that never blocks but in `poll` and in timed sleeps, and the script is a process;
nothing is assumed of the command, the deadline or the sleep except where a property names
it as its own premise. Faults, kills and power losses are never fair and are bounded.

Symmetry is not used: the runs with temporal properties exclude it and the others are
small enough.

## 4. What the models show beyond "it holds"

The first violation, `trust_acked`. After a failed flush of the swap, a redelivery is answered
`Ok(unchanged)` by comparing bytes, and nothing flushes the root again. A power loss then
restores the previous generation: a control plane that was told the host is at epoch *n*
has a host at *n - 1*. `ChangedFloorSurvives` is the weaker statement that does hold:
an epoch reported as *changed* is never lost.

The second, `bounded_outlived`. The documentation of `Supervisor` makes the script's own
deadline the backstop: it "ends the command on the far side of an SSH connection, which a
signal to the local `ssh` never reaches", and "wherever the relay fails to arrive". But the
script prints its marker before it kills the group (`bounded.rs:347`, `:348`), and in just
those cases nobody reads that print any more: the engine drops its pipes before it signals
anything, at a deadline that is the script's or the one before it is rounded up to a whole
second, and a lost connection closes them too. The print raises `SIGPIPE`, the script dies
there, and the command and its subshell run on. The test of the deadline
(`executor.rs:10366`) holds the script's standard error open to the end and so cannot see
it. `OutlivesOnlyPiped` is what does hold: this is the only way for a command to outlive its
run for good. Killing the group first would leave the engine without its marker; a print that
ignores `SIGPIPE` would do.

What the code does and the properties say as exceptions, each found by stating the property
without it:

- A fault after the swap of a chain's step is an error of a step whose generation is live.
  `completed` is still a correct resume position (`CatchesUp`), because the redelivery is
  the byte-identical no-op.
- The doors take no lock. Two that overlap compare their floors before either swaps, so
  the lower epoch may be installed last; and a door that resolves `active` several times may
  report an index that is not its record's. Callers must serialize them; the runs do.
- `UnitServesActive` excludes `late`: a unit that is still starting when `reload_if_active`
  asks is not running, so `is-active` fails and the activation reports success without a
  reload. If that unit resolved `active` before the swap, it finishes starting after it and
  serves the superseded material until its next reload or restart. Nothing in the
  activation's result tells the caller.
- `ResultIsReal`: a connection lost under a running command makes `ssh` write its
  diagnostic after the sentinel, where it counts as the command's, so a command within its
  limit may be reported past it. An exit-status line that is not followed by the end of the
  stream within `FRAMING_GRACE` does the same, and a command that prints an exit-status line
  of its own on a connection that is then lost is believed.
- `KillsAreTheRuns`: the subshell may signal the sleep's pid after the script's `wait` reaped
  it, if the command exits between that `wait` and `kill -KILL 0`. That is a moment, but for
  a script that died at its marker, whose command may exit at any time afterwards.
- `RollbackPoint` and `BaselineOnDisk` exclude a shell transport whose caller gave up on a
  script (`Loose`): the script may still relink `.previous` or place its file after the
  retry has moved on. `put_file`'s own guarantee (`NeverTorn`) has no such exception.
- `TransportsAgree` excludes a destination directly in `/`, where the script considers the
  root itself and the process has no parent to look at.
- `NothingLeftBehind`: a process this one may not signal (an elevated child) can be left,
  and then the call failed.
- `LateRefusalIsDisk`: `finalize` and `publish` hold more disk than `prepare` did, so the
  disk limit alone can refuse a package that was prepared and signed.

## 5. What is proved

Eight modules hold proofs. Each starts from its component's assumption on the constants
(`ConstantsAssumption`, `DoorsAssumption`, `ChannelAssumption` and so on), and nothing
else except where a hypothesis is named below. An invariant that a run checks is seldom
inductive; what had to be added to it, and why, is the substance of each proof. Every
strengthening was checked by TLC on the instances of section 3 before it was proved.

### GenerationTreeProofs

For every set of materials, every number of files and all bounds:

- `Invariance`: `Inv` is invariant. `Inv` is `TypeOK` with four parts that make it
  inductive. `CrashClosed`: every content an index may come back with, when a link that may
  survive names it, is whole and accepted; without it `ActiveIsTrustworthy` says nothing
  about the state after a power loss. `Anchored`: an index that went live, or whose removal
  is not flushed, lies at or below an index that cannot be lost; without it allocation
  could step back. `Remembered` ties the history of readers to every possible content.
  `Staged` is what each point of the call has established about the index it stages.
  The proof has one lemma per action.
- `TypeCorrect`, `ActiveSafety` (`ActiveIsTrustworthy`), `IndexSafety` (`IndexNeverReused`),
  `ReaderSafety` (`ReaderNeverPairs`), `ChangedSafety` (`ChangedIsDurableAndPruned`): they
  follow from `Inv`, the last two with a step of their own.
- `UnitSafety` (`UnitServesActive`), by an invariant of its own, `Served`: from the reload on
  and until the link moves again, a unit that systemctl answered about has loaded what
  `active` names or was `late` (caught starting with the older material loaded); a stopped
  unit has loaded nothing, and a tree without a unit has none started, which is what lets
  the engine go from the flush of the swap straight to pruning.
- `Refinement`: `Spec => Register!Spec`, by mapping `active` and `mayActive` to the
  register's `live` and `kept`: the swap is `Install`, the root flush is `Commit` (or a
  stutter when nothing was pending), a power loss is `PowerLoss`, everything else stutters.

### AdmissionProofs

Of the doors of `release_trust`, for any packages, chains, pins and bounds:

- `TypeCorrect` and `AdmissionSafety` (`LiveSelfAdmits`), for any number of callers at once.
  The second needs only that whatever waits for its swap was validated where it is staged
  (`Admission`): the doors share no lock, so nothing a call read earlier may be relied on.
- `FloorSurvives` (`ChangedFloorSurvives`) and `SwapsAreEarned` (`SwapIsEarned`, an action
  property), under the hypothesis `Serial`: there is one caller. The hypothesis is not a
  convenience. The doors take no lock and leave serialization to whoever calls them, and with
  two callers both statements fail (section 4); the theorems say that serialization is all
  that is missing. `SerialInv` says of each point of a door what it read of the tree and that
  it still holds there (`ReadsHold`), what the installation has published (`Published`), and
  that every generation that may come back after a loss of power is at or above the epoch
  that was promised (`FloorKept`).
- The lemmas `VerifiedPackage` and `AcceptedPackage` say what a verdict of `verify_package`
  establishes. They rest on `FirstOfPasses`: a list of checks read up to its first fault
  passes only when each of them does. It is an argument by least counterexample
  (`WFMin` on `<` over the naturals), since induction is not at hand.

Of a container's file, over any alphabet that has the magic, a byte for each known version
and a symbol for each u64 (`Alphabet`), and for any bases and blocks as long as no file
outgrows what a u64 counts (`TravelSpec`):

- `ReadersSafety` (`ReadersInvertWriters`), by `TravelInv`: the file is its base and its
  blocks as `append_trailer` would have wrapped them, or a retired file that is refused, or
  nobody accounts for it. The readers' side is `FillsIsFooterFor`: the fields that
  `validate_footer` accepts, check by check, are those that `FooterFor` computes from the
  lengths they record, so an accepted footer could have been written, whatever the bytes in
  front of it. The writers' side is `WrappedReads`: the probe for a footer finds the one
  that was written, although the base or a block may hold one of its own. That a trailer may
  be moved any number of times is `RewrapIs`: shifting each offset by the difference of the
  two bases gives the footer the new base would have got.

Of the window guard, for any list of formed frames, cut anywhere, and any copy buffer
(`GuardSpec`):

- `WindowSafety` (`WindowHeld`), by `GuardInv`: the guard's state is what following the bytes
  handed on so far from the start of a frame leads to, that state is no refusal, and a fault
  is the state of some longer prefix of the stream. That the reads may fall anywhere is
  `FollowConcat`. `FollowField` and `FollowSkip` follow one field and one stretch of content;
  `FramePasses` and `FrameRefused` put them together to a frame and `StreamFault` to a list
  of frames, each against the reference `FirstFault`; `RefusedStays` and `Absorbed` carry a
  refusal to the end of the read.
- A frame is followed by recursive functions over its bytes, and so are its numbers read
  (`Le`) and its fields laid out (`FlattenSeq`). That each such function is defined by its
  equation is proved (`FollowExists`, `FollowsAgree`), and each statement about all lengths
  by its least counterexample. `LeReadsBack` shows for the three and four bytes of a block
  header and a skippable length that the number read is the number written.

### HostUpdateProofs

- `WalksAgree` (`TransportsAgree`) and `StagingSafety` (`StagingIsSafe`), for chains of
  ancestors of any length. The shell's walk and the process's look at different sets of
  ancestors; the proof compares the least elements of the two.
- `NothingTorn` (`NeverTorn`), for any number of scripts at once, abandoned or outliving
  their transport. `TornInv` has three parts: a file being staged has no name yet and is
  nobody else's (`Apart`), each step of the put has established what it should of it
  (`Staged`), and everything that has a name, or may have one after a loss of power, or is
  about to get a second one, lasts (`Named`).
- `RollbackPointStands` (`RollbackPoint`) and `BaselineStands` (`BaselineOnDisk`), which need
  the caller's side too: where no script was left running the one call under way is the one
  the caller waits for (`Alone`), the journal and the step agree (`Journalled`), and `OnDisk`
  and `Underway` follow the destination and `.previous` through every step.

### BoundedRunProofs

For every transport, limit, capacity of a pipe, input and command:

- `Invariance`: `IInv`. `Engaged` and `Staged` place the engine and the processes of the other
  side against each other; `Fed` says what of the input nobody has taken; `Aimed` says whom a
  signal may reach; `Judged` says why a limit is said to be passed. `Layout` is the part that
  the result hangs on: whatever the reads split, standard error so far is the transport's
  text, the sentinel, the command's bytes with the marker after some of them, the wrapper's
  line and a last word of ssh, each perhaps missing, and `Told` says what each one present
  says of the processes. Writes that no longer reach a pipe end that correspondence, so it is
  stated while the run is `Heard`; a print kills the script only in a run that is not
  (`Prints`).
- `KillsSafety` (`KillsAreTheRuns`), `StdinSafety` (`StdinIsTheCallers`), `ResultSafety`
  (`ResultIsReal`). The last one takes most of the module: that the first sentinel, the last
  exit line and the marker that `finish` finds in those bytes are the ones the layout has
  there, though the command may print words that look like them.

### ChannelProofs

For every capacity of a pipe, hold, limit, transport and command:

- `Invariance`: `IInv`, in six parts beside the types. `Placed`: where the caller's thread, the
  processes and the drain are, with what each says of the others. `Lined`: what the wrapper
  still has to print is an end of its line. `Fed`: what waits in standard input is an end of
  the password line, the handoff line and the caller's bytes (`Queued`), though sudo may have
  taken none or all of the password. `Layout`: standard error is the transport's text, the
  sentinel, and `Stream(n)`, which is n bytes of the command, the wrapper's line, and what a
  descendant wrote behind it; ahead of the drain all of it is in what was read or in the pipe
  (`Unread`), behind it the sink was given a front of it (`Keeps`) and the pipe has the rest
  (`Drained`). `Started`: the sentinel was in what was read before the handoff. `Caught`: what
  a drain that finished has caught.
- `LeftBehindSafety` (`NothingLeftBehind`) and `ExchangeSafety` (`ExchangeIsTheCallers`). The
  hold back of the last bytes is what the second turns on: a status line is found in the held
  bytes only when it is the last thing there, and `FinishThere` shows that, once the whole of
  the wrapper's line was drained, that line is the wrapper's whatever the command printed.
  The assumption `StatusHold >= 4` states that the hold is as long as the line.

### DeliveryProofs

For any packages, trust sets and requests (`DeliverySpec`; a `Parcel` is what the types of
the code give of a package, and `NoFormat` is none of the formats):

- `VerdictSafety` (`VerdictIsPolicy`): the ordered checks accept exactly what the policy
  accepts, in both directions. `PassesIff` and `BothPassIff` take a list of checks apart, and
  each check gets a lemma that says what its passing means. Two of those are arguments of
  their own: a walk that compares each declaration with the first one seen for a name refuses
  exactly when some two declarations disagree (`FirstSlot` picks the least of the slots), and
  equal counts with every entry a member and no name twice make the members a permutation of
  the entries (`DistinctCount`, by cardinality).
- `RedeliverySafety` (`RedeliveryIsSafe`, an action property): one lemma per kind of
  redelivery. A rewritten hint can only exchange the two refusals of a signature nobody can
  attribute; that a build is withdrawn is said ahead of everything the request decides; what
  passes under tighter trust passed before.

For every `Settled` destination (whose files had reached the disk) and any `Wellformed`
packages (a list of members, a manifest that names each path of the tree once):

- `ExtractSafety` (`TargetsAreWhole`), by `IInv`: whatever a path holds, now (`vol`) or after a
  loss of power (`dur`), is flushed and was offered for that path (`WholeFiles`); what
  the call has recorded (`Records`, `Calling`); that the destination is as it was found until
  the first rename (`Untouched`); what was received into the staging directory is what the
  manifest names (`Received`); how far publishing has come and which of the directories on
  the way it still has to flush (`Publishing`); and what an answer promises is on disk
  (`Answered`). The last two are why each directory is flushed after the one below it:
  a file whose directory is not on disk is not there after a loss of power. The assumption
  `AboveAssumption` says of the tree of paths what `Parent` is meant to be: the entries above
  a path are paths, none is above itself, and what is above one of them is above the path.

For any jobs, any limits, any number of edits and any blobs others may put in a file's
place, from `PipelineAssumption` (limits and lengths are naturals, every input has a source,
and there is something else to put in a blob's place) and `ContentsAssumption`:

- `HandleSafety`, `RefusalSafety` and `UploadSafety` (`HandleIsBound`, `LateRefusalIsDisk`,
  `UploadAgrees`), by `JInv`. Until a call refuses, it says which step of which job the state
  is at (`PhaseAndStep`); that what was derived, archived and bound is what the snapshots
  make, within every limit, the envelope that is still to come included (`Preparation`); that
  what is held is what its binding names, and that this is job one's binding or the one
  expected (`Held`); and of the directory that no inode is named or opened as two of its
  files, and that whatever sits under a name has a length (`FilesApart`, `Opening`). The
  snapshots of the sources are part of it because `HandleIsBound` alone is not inductive: a
  manifest describes the archive only as long as both were made of the same snapshots,
  whatever became of the sources.
- For `HandleSafety` the argument is that a reopened manifest and archive equal what was
  validated, by their digests, and that a walk that passed is a description
  (`WalkedIsDescribed`, `ValidIsDescribed`).
- For `RefusalSafety` the invariant also keeps, for a directory nobody altered, that it is
  still what was persisted (`Persisted`), and that what was prepared passed with every limit
  but the disk to spare (`Archived`). From that, per refusal of the second job, that it cannot
  be this one: a record that was written reads back and says what it said (`ReadsBack`), and
  a check of contents that passed once, under the same limits with another room, is refused
  for the room alone (`ContentsWithin`). Its second half, that no call holds more than its
  limit, is `DiskHeld`; `FinalizePasses` adds up what finalization holds.
- `UploadSafety` rests on `StagedIsWhole`, a lemma about any container: the staging bound
  leaves either the whole disk limit or at least as much as the archive may unpack to, and a
  walk never needs more (`WalkWithin`). What the path may make of a package meets its
  hypotheses (`VariantsWeigh`).

The lengths are sums, and `SumOf` is a recursive function of the list's length. That it is
defined by its equation is proved, not assumed: the least length without such a function
would have a predecessor with one (`SumExists`, `SumsAgree`).

### RetentionProofs and PublicationProofs

For any finite set of writers, any limit, `max_len` and buffer:

- `Invariance`: `RetainInv`. Its ledger part says `used` is the number of charged units summed
  over the writers, stated as the cardinality of a set of (writer, unit) pairs so that no
  recursive sum is needed; its per-writer part (`Stage`) says what each point of the call
  has established about the grant, the chunk, the bytes in the file and the charge. The
  second part is what makes the compare-and-exchange provable: the value loaded may be
  stale, and only its equality with `used` bounds the grant by the limit.
- `TypeCorrect`, `BudgetSafety`, `DiskSafety`, `SnapshotSafety`, and `HighWaterSafety`: the
  high-water mark is the true peak.

For any finite sets of calls and any number of parts:

- `Invariance`: `Inv`, which adds to the properties what each stage has established about
  the call's own sibling and all it may be after a power loss (`StagesEstablish`), and what
  holds at the one point where the name appears (`PublishPoint`).
- `TypeCorrect`, `WholeSafety`, `CleanFailureSafety`, `ReceiptSafety`, and `NoClobber`, the
  action property.

### Only model-checked

Liveness (`RetryConverges`, `CatchesUp`, `UpdateCompletes`, `OutlivesOnlyPiped` and both properties
named `Returns`) is out of the prover's reach. Of the safety properties three are left to
TLC: what the image phases and the lenient readers find in a tar stream (`ReadersAgree`,
`ImagesAreDeclared`) and the outer walk against its reference (`WalkAgrees`). Each compares
what two computations give for the same data, and these are folds over the stream's records:
`FoldLeft` takes an operator as a parameter, and the induction over its list cannot be
instantiated. Written as recursive functions they could be reasoned about by least
counterexamples, as the window guard is, but the two sides of each comparison pass over the
stream with states of a different shape, and the invariant that relates them would restate
the walker. The proofs about `Pipeline` take `ValidateImageArchive` as the function it is and
say nothing of what it computes: the verdict on an image depends on neither the room nor the
call that asks.

## 6. Not modelled, and the plan

Every safety property of a run is stated by a theorem of section 5, but for the three that
compare walks of a tar stream. A proof of those would start with the walker's folds rewritten
as recursive functions and one lemma per kind of record.

Not modelled, and why:

- `retain/trusted_dir.rs`: who may write the ancestors of an output directory, a stateless
  judgement of each one's owner and mode with unit tests for every case.
- `module_spec`, `render`, `systemd`, `layout`, `registration`, `bootroot_cmd`,
  `config_template`: validation of single fields, text and paths; they keep no state and
  nothing interleaves.
- `roxyd_selfupdate*`: unit text and record types; the supervisor that acts on them is in
  another repository.
- Cryptography, JSON, X.509, and zstd, gzip and tar decoding: pure functions of bytes with
  fixture tests; the models take their verdicts.
- Quoting and the construction of argument vectors, file permissions beyond owner and write
  bits, error texts.
- The parts of `apply` beside the artifact (configuration, secrets, images): each is one
  `put_file` or one command over the transport already modelled.
- `image/assembly.rs` and `retain/fault.rs` are the tests' own.

About two thirds of the crate's lines under `src/src` are tests. The map names non-test code
only: a third of its roughly 25,900 lines. What it leaves out of the modelled files is
types, error enums and their `Display`, argument vectors, and the tests themselves.
