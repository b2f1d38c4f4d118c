# A TLA+ model of tee-anchor

`tee-anchor` is a command-line tool with which an organization ties attested machines to itself.
`ca-init` makes an organizational CA; `provision` checks a machine's attestation evidence, takes
its chip id out of it and signs an *endorsement* (a certificate with a ChipIdBinding extension);
`revoke` and `crl-issue` take endorsements back; `verify`, on a relying party's machine, accepts
evidence only together with an endorsement for the very same chip.

There is no daemon and no network: the parts of the system are short-lived processes that meet in
files. What is hard is what happens to these files between system calls, when processes overlap
or die, and what a relying party concludes from files of different origin and age. The modules
here are about that.

## Inventory

| Component | Code | State | Operations | What makes it correct | Status |
|---|---|---|---|---|---|
| Revocation store | `ca/revocation_db.*`, `ca/revoke.*`, `ca/crl_issue.*`, `common/io.hpp` | `revocations.txt`, `revocations.txt.tmp`, the CRL file | load, append, save by rename, write the CRL, count the CRL number | reported revocations are never lost; CRLs only grow | modelled, proved |
| Lifecycle | all of `ca/`, `provision/provision.*`, `verify/*` | CA files, DB, endorsements, CRLs, clock | the five subcommands | accepts exactly the endorsed machine; revocation takes effect in time | modelled, proved |
| CA files | `ca/ca_init.*`, `common/io.hpp`, `common/pki_util.hpp` | `ca.key`, its mode, `ca.crt` | look, make, write, chmod; load and compare | a CA is not damaged without `--force`; leftovers sign nothing | modelled, proved |
| SGX and TDX evidence | `provision/sgx/*`, `provision/tdx/*` | a buffer and offsets; a list of certificates | walk the quote, verify the PCK chain, take the PPID | no read outside of the quote; PPIDs are Intel's only | modelled, proved |
| SEV-SNP evidence | `provision/sev-snp/*` | a report and three certificates | header, ARK pin, chain, signature, chip id, hwID | the chip id is that of a machine whose key AMD certified; genuine reports of all generations pass | modelled, proved |
| CCA evidence | `provision/cca/*`, `common/cbor.hpp` | a token, and the texts within it | decode, verify ES384, take the instance id | the instance id is that of the platform that signed, however the token is put together; genuine tokens pass | modelled, proved |
| ChipIdBinding codec | `binding/*` | a text and an offset | DER encode and decode | what is written is read; no read outside of the SEQUENCE | modelled, proved |
| PKI helpers | `common/pki_util.hpp`, `openssl_raii.hpp` | none | keys, serials, names, PEM | | within the actions that call them |
| Command line | `tee_anchor.cpp`, the `cli_*` functions, the checks of the `run_*` functions | all files, by path | parse, dispatch, check, load, write, exit code | without a fault, 0 means that what was said was done, and anything else that nothing was; reported revocations stay listed; a code of `verify` names the file at fault | modelled, proved |
| SGX RA client | `benchmark/sgx/verify/*` | a context, keys, a quote, a verdict | seven requests to a server and to MAA | secrets reach the required enclave only | partly modelled |
| Samples | `provision/*/*_sample` | the report | obtain a report and write it | a report that is cut never yields an endorsement | SGX and TDX modelled |
| Other benchmarks | the rest of `benchmark/*` | none of tee-anchor's | measure | | not modelled |

Components interact through files only: `ca-init` writes what `provision` and `crl-issue` load;
`revoke` and `crl-issue` share the DB; endorsements, `ca.crt` and CRLs travel to relying parties
by means the code does not know, so that any file ever written may turn up at `verify`, together
with any other. The evidence parsers are called by `provision` and by `verify` alike.

## Modules

* **`RevocationStore`** - the files of revocation, one system call per step, for any number of
  processes. `RevokeStart`/`CrlIssueStart` are the checks up to the load; `Load` is
  `load_revocation_db` followed by all that the commands do in memory; `CrlOpen` and `CrlWrite`
  are `write_file`; `SaveOpen`, `SaveFlush` and `SaveRename` are `save_revocation_db`; `Report` is
  the exit with code 0. A process holds a descriptor, which follows its file through another
  process's rename (`fd`). Four kinds of fault can be switched on: a kill, a failure that the
  code sees, one that it does not see (the buffer lost when the stream is destroyed) and a DB that
  cannot be opened. A DB text is a record of counter and entries; a text cut anywhere reads as one
  of `FirstBytes`. A cut through the digits of the counter counts as a missing counter.
* **`RevocationRegister`** - the abstract specification: an append-only list, a counter, one CRL.
  `RevocationStore` implements it (`RefinesRegister`, with `entries` and `number` those of the DB).
* **`TeeAnchor`** - the whole life of endorsements. A command is one step (`CaInit` may be cut
  short between its two files); the DB is the register that `RevocationStore` implements;
  `VerifyExit` is `run_verify`, exit code by exit code, applied in the properties to *every*
  combination of report, endorsement, CA certificate and CRL that may exist. `ChainStatus` has the
  order in which OpenSSL reports failures, which decides between codes 21 and 24.
* **`CaFiles`** - `ca.key` and `ca.crt` at the level of system calls: the `path_exists` checks, the
  two `write_file` calls of `ca-init`, and the two loads of `provision` and `crl-issue`.
* **`CommandLine`** - all of the program from the words of a line to the exit code and the files, one
  command per step. A line has a subcommand and options as a person means them (`said`), of which
  one may have lost its value, or have an empty one, as variables of the shell do it; `Words` is
  what `argv` holds then, `Parse` the loop of the `cli_*` functions, which takes the word after an
  option for its value whatever it looks like. `RunCaInit` to `RunCrlIssue` and `VerifyCode` are
  the `run_*` functions with their checks in order of effect, on files by path that may be
  missing, cut, or of another kind; `Complete` is what they ask of a line before the contents of
  files matter. Faults are those of the calls that change or read lasting state. `WriteFile` is
  `write_file`, which throws if open, write or chmod fails, whatever is in the file by then, and
  returns as if nothing had happened if `close` cannot write the rest (`common/io.hpp:32`). `SaveDb`
  is `save_revocation_db`: what throws leaves the DB alone, and a flush that is lost renames a cut
  DB into place (`ca/revocation_db.cpp:97-99`). `LoadDb` is `load_revocation_db`, which takes what
  it could read for the whole: nothing, if a DB that exists cannot be opened (line 39). `failed`
  counts faults. `SgxSample` and `TdxSample` are the programs that write quotes: `sample_app` looks at no write and `get_quote` not at `fclose`. The chip id, the binding
  and the chain of `verify` are `TeeAnchor`'s, through an instance.
* **`Files`** - the constants that `CaFiles` and `CommandLine` share. The two have names of their own
  otherwise (`CLInit`, `CLNext` and so on in `CommandLine`), so that one module can extend both.
* **`X509`** - `X509_verify_cert` as the vendor chains use it, external; the operator accepts every
  path that OpenSSL may take. `VouchedKeys` is what the properties compare with: the keys that the
  holder of a pinned key answers for.
* **`PckChain`** - `find_leaf`, `verify_pck_chain` and the PPID as operators on a sequence of
  certificates.
* **`PckEvidence`** - the walk over an SGX quote and over a TD quote (versions 4 and 5), one field
  per step, any value in any field; then the chain and the PPID.
* **`SnpEvidence`** - `verify_and_extract` for SEV-SNP, one file or check per step. The report and
  the three PEM files hold anything, and what one look or load finds says nothing about the next.
  A hwID extension has 64 bytes or fewer, as AMD's generations have it. AMD's promise about its
  keys (a signing key belongs to machines whose firmware reports of itself) is `SnpAssumption`.
* **`Cbor`** - the decoder and the encoder of `common/cbor.hpp` as functions on bytes, with the cast
  between `uint64_t` and `int64_t` that `as_int` makes, on which the look-up of keys rests.
* **`CcaEvidence`** - `verify_and_extract` for CCA, one decoded text per step.
* **`ChipIdBinding`** - the encoder, and the decoder one `ASN1_get_object` per step (external, with
  its treatment of long and indefinite lengths and of the long form of tags), on what was encoded
  and on any other text. The decoder is less strict than DER: it looks neither at the class of a
  tag nor at what follows the time, and neither does the model.
* **`RaClient`** - the SGX relying party of `benchmark/sgx/verify`, one request per step, several
  runs at a time. It takes its verdict from MAA and from its own checks; `tee-anchor verify` runs on
  the same quote within the benchmark only, which uses no verdict of it. The server is external and
  hands out what it likes, and what is not an enclave of the required identity may copy the report
  data of one that is; but the latter quote no key except their own.
* `MC*` - small instances for TLC. `*Proofs` - theorems.

Operators named in comments as *mutants* are variants of an action with a plausible mistake; each
property of a passing run is violated when one of them takes the place of the original.

## Runs

| Run | Asks | Bounds |
|---|---|---|
| `store` | Is the store an atomic register while one command runs at a time and up to two commands are killed or fail at any point, and does each reported revocation reach the CRL file in the end? | 2 serials, 2 reasons, 2 faults; `crl-issue` without need up to number 3, with need up to 6, which is never reached (209 thousand states) |
| `store_concurrent` | The same durability with two commands at a time: **violated** | 2 processes, no fault |
| `store_diskfull` | Is a save atomic, as its comment says? **violated** | one fault |
| `store_unreadable` | Durability if the DB cannot be opened once: **violated** | one fault |
| `org` | Who is accepted and refused, with which code, over the whole lifecycle | 2 CA keys under one name, 2 machines of which one hides its id, 2 TEE types, 2 serials, one CRL, clock 0..3 with lives 1, 2 and 3 (111 thousand states) |
| `cli` | What does an exit code tell, and which revocations stay listed, for lines right and wrong, when commands write over each other's files and one of them meets a fault, seen or not? | 73 lines, 43 of them with a value missing or empty; one CA directory, a second DB, a directory that does not exist; 2 keys or serials, one fault, 4 machines (61 thousand states) |
| `ca` | Does a reported CA stand while nothing overlaps and nothing is lost unseen, and what holds of permissions and signatures whatever overlaps and fails? | 2 processes, 4 keys, 3 faults (59 thousand states) |
| `evidence` | Are reads bounded, is the PPID Intel's, is the order of certificates irrelevant? | sizes and lengths on both sides of every boundary of the layouts, 1 to 4 certificates out of 9, those of 4 without repetition; `int` has 12 bits, so that a quote of 3100 bytes stands for one of more than 2 GiB (1.2 million states) |
| `snp` | Is the chip id the signer's, and are genuine reports accepted? | 2 generations with a machine each, one with a short hwID; 13 certificates, among them an expired one, one for a key that two machines hold, two with a wrong hwID and three of somebody else (97 thousand states) |
| `cca` | Is the instance id the signer's, are genuine tokens accepted, is the signed message exact? | payloads of 17 to 258 bytes around 23/24 and 255/256, lengths in 0, 1, 2, 4 and 8 bytes; 14 values in each byte of a token, and all its prefixes |
| `binding` | Are reads bounded, and is what is written read? | chip ids of 0 to 257 bytes around each change of form, and of 2000; 16 values in each of 40 bytes; odd forms |
| `ra` | Who gets secrets, is the result sent first, are contexts cleaned up? | 2 runs, 2 contexts, 3 enclaves of which one is right, one too old and one of somebody else (417 thousand states) |

The bounds are enough in this sense: two serials and two faults let a fault hit the handling of a
fault; two CA keys under one name are what name-only comparisons confuse; a CRL life of 1, a CA
life of 2 and an endorsement life of 3 within a clock of 3 let each document expire while the next
is alive; every property looks at one CRL at a time and nothing else depends on which CRLs there
are, so that one CRL, issued at any moment, is enough; four certificates make a chain of root, CA
and leaf with one stranger in it, which may be a CA that nobody names. `SYMMETRY` permutes serials, keys or processes, which no property
tells apart, and is used for no liveness property. In `cli`,
`VIEW` leaves the last line and its exit code out of what tells states apart: the next step depends
on neither, and the two properties about them are action properties, which TLC evaluates on every
step. Deadlock is not checked in `org`, where the
clock is bounded and an operator may do nothing, and in the runs on evidence and bindings, where a
walk ends.

### What the violated runs show

1. `store_concurrent`: `revoke` loads, appends and saves without a lock. Two commands that
   overlap leave the DB of the one that renames last; the other's revocation, reported with exit
   code 0, is gone.
2. `store_diskfull`: the last look at the stream in `save_revocation_db` comes before the
   buffer is flushed. If that flush fails, a cut file becomes the DB.
3. `store_unreadable`: a DB that exists and cannot be opened counts as one never made.

Eight more places where the code does less than its documents say, without a run of their own:

* `crl-issue` writes the CRL (`ca/crl_issue.cpp:213`) before it saves the number: killed in between,
  the next CRL has the same number and other contents, where `docs/design.md:341` has a running
  counter. `ReportedNumbersAreUsedUp` and `NewerCrlsGrow` say what still holds: a *reported* number
  is not used again, and of two CRLs with one number the reported one lists at least as much.
* A DB path whose directory does not exist reads as an empty DB; `crl-issue` then writes a CRL that
  lists nothing and exits with 1, because the save fails (`ca/crl_issue.cpp:216`).
  `ExitTellsWhatHappened` names it as the one refusal that changes a file without a fault.
* `--crl ""` is no CRL (`verify/verify.cpp:171`). The five options whose empty value has a meaning
  of its own are `MayBeEmpty`; for all others `cli` shows that an empty value is refused.
* The existence checks of `ca-init` (`ca/ca_init.cpp:28-37`) come well before its writes, so that
  one of two overlapping `ca-init` without `--force` writes over the other. `ca` shows what holds
  even then; the variable `course` keeps these behaviours apart in `ReportedCaStands`.
* A hwID that is not 64 bytes long is not compared with CHIP_ID
  (`provision/sev-snp/snp_provision.cpp:244`), and VCEKs of Turin, whose root is pinned, have one of
  8 bytes. `ChipIsTheSigners` holds nevertheless: the comparison is a second line of defence, and
  `GenuineIsAccepted` shows that a stricter one would refuse genuine reports.
* `close` may fail at the end of `write_file`, and nothing looks (`common/io.hpp:32`): `ca-init`,
  `provision` and `crl-issue` then report success for a file that is cut or empty. `cli` and `ca`
  have this fault. Their properties promise nothing of the command that it hits, but that no later
  command takes the file for a whole one.
* A `--report` file that cannot be read gives exit code 20 (`verify/verify.cpp:182`), where
  README.md:238, docs/design.md:279 and the help of `verify` have 30 for I/O errors.
  `RefusalNamesTheCause` leaves this case out: if the report can be read, then after 20 another
  report would help (with good vendor certificates, where `--certs` names some), and after 30 none
  would; unless the report's path is given for a certificate or the CRL as well, when a change of
  the one changes the other.
* `verify_enclave` reports an ISVSVN or ISV ProdID that is wrong in the quote as rejected, and goes
  on (`benchmark/sgx/verify/client_app.cpp:963` and `:995`). The same values in MAA's token end the
  check; `SecretsReachTheEnclave` rests on these alone.

### Fairness

Two properties need fairness. `RevocationReachesCrl` in `store`: `WF_vars(Advance(p))`, a started
process is scheduled until it ends; there is no blocking call in the code. `SF_vars` on the start
of `crl-issue`: the operator runs it again and again; `revoke` ends with the request to do so
(`ca/revoke.cpp:127`), and a CRL expires after seven days unless another is issued
(`docs/design.md:342`). Faults and revocations have no fairness. `MaxReissue` ends the runs of
`crl-issue` that nothing calls for, so that the bounded counter is never used up by them: TLC
finds the same states with `MaxNumber` 6, 7, 8 and 9. `ContextsAreDestroyed` in `ra`:
`WF_vars(Advance(r))`, a request is answered or times out, as the HTTP library has it; the client
has no loop. That the server answers well is not assumed.

## Proofs

All theorems are checked by TLAPS for every value of the constants that the named assumptions
allow (`StoreAssumption`, `NoneAssumption`, `TeeAnchorAssumption`, `AbsenceAssumption`,
`CaFilesAssumption`, `CommandLineAssumption`, `EvidenceAssumption`, `SnpAssumption`, `BindingAssumption`,
`CcaAssumption`, `RaAssumption`): any number of
processes, serials, keys, machines, faults and certificates, without the bounds of the runs. Three
theorems have a hypothesis of their own. Two are about CCA tokens and say what is outside of the program:
`SignsClaims`, that platforms sign the Sig_structure of claims with their instance id, and
`HandsOut`, that realms hand out collections of what their platform signed. Both are stated with
the forms of RFC 8949 and RFC 9052 and without a look at the encoder and the walk of the decoder;
only what a header or claims *say* (the algorithm, the instance id) is what `Decode` and `At` find,
since a header may hold anything else. TLC evaluates both for the model of the run `cca`
(`MCSignsClaims`, `MCHandsOut`). The third is `ReadAsMeant` for each line, see below.

* **`RevocationStoreProofs`** - `TypeCorrect`: the type invariant, for any interleaving and all
  four kinds of fault. The strengthening `Typed` adds that a descriptor leads to a file that is
  there. Then all safety properties of `store`, the refinement of `RevocationRegister`, and two
  facts that follow from it (no CRL lists what the DB does not, what is recorded of a serial
  stands), under `SeenFaultsOnly` (one command at a time; kills and visible failures). The runs `store_concurrent`, `store_diskfull` and `store_unreadable` show that no part of that
  assumption can go. The inductive invariant `Inv` says, for each place a process can be at, how
  its memory, the temporary file and the DB are related: memory is the DB, or the DB and one entry
  more, or the DB with the counter one higher; the temporary file that is about to be renamed is
  equal to memory; CRLs published lie within the DB, and one with the next number can only be
  there if it was not reported. The properties alone are not inductive because what a rename
  makes of the DB was decided three system calls before.
* **`TeeAnchorProofs`** - all invariants of `org` and the action property `RefusalIsFinal`. `Inv`
  ties each endorsement to the machine whose evidence it was made from, the key of each document
  to a CA certificate that was in use, and each CRL to the revocation dates: it lists only revoked
  serials, and one that lacks a revoked serial ends within a CRL's lifetime of the revocation.
  `StalenessBounded` follows from that and from validity, `RefusalIsFinal` from every document
  being valid from the moment it exists.
* **`FilesProofs`**, on `CaFiles` - the types, `CertifiedKeyIsProtected` and `SignedIsCertified` for
  any number of processes and all faults, and `ReportedCaStands`: `CalmInv` says what keys the files
  hold at each call until the course of things is disturbed.
* **`FilesProofs`**, on `CommandLine` - all its properties, for any lines in any order, any paths
  that coincide or not, any files to start with and any number of faults. `CLInv`: every
  document that a file holds is sound (of its kind, and not from a time to come), and the DB that
  `revoked` names lists what was reported; each command either leaves the DB as it was, adds to it,
  was told to write to it, or has changed it after a fault that it did not see, which is what
  `Elsewhere` and `Harmed` compare. `WriteFileIs`, `SaveDbIs` and `LoadDbIs` say what a call may come
  to. `StaysListed` promises no more: `store_diskfull` and `store_unreadable` show that after such a
  fault a revocation may be gone. `CauseIsNamed` follows
  what a change of one option changes in `run_verify` (`WithoutCrl`, `WithMachine`); that a sound
  document is valid is needed for code 24. The attempt to prove it showed the property to claim too
  much at first, for SNP reports without vendor certificates and for a report that is given for
  another file, too; both are among the lines of `cli` now.
  `ExitCodesTell` has two halves. `OptionsAreDone` says of each line, without a hypothesis, that the
  command, if no fault hit it, has done what its options *as they were read* ask for if the code
  is 0, and has changed no file otherwise, but for the CRL whose DB cannot be saved; earlier faults
  may have cut any file. A `revoke` that fails has changed nothing even if a fault hit it.
  `KeysAreNew` adds to the invariant that a key to be made is in no file. What was read is what was meant by the
  hypothesis `ReadAsMeant`: a line with a value missing or empty is not understood, is not
  `Complete`, asks for help, or the empty value has a meaning. That is a matter of the words of a
  line and of a fold over them, and TLC evaluates it for all lines of `cli`
  (`LinesAreReadAsMeant`). It is not so for every line one may think of: `--report "" --report r` is
  read as `--report r`. And `crl-issue ... --out --help`, whose value is missing, writes a CRL to a
  file `--help`; `AsksForHelp` leaves lines with that word out of the property.
* **`PckEvidenceProofs`** - the types for quotes of any size and contents, and `ReadsInQuote` for
  those of less than 2 GiB (`Fits` says what the checks passed so far leave behind); and `PpidIsIntels` for chains of any
  length: the keys that a verified path leads to are vouched for by the pinned one
  (`VerifiedIsClosed`, by a least counterexample). `OrderDoesNotMatter`: `find_leaf` finds the one
  certificate with a PPID in every permutation of a `SingleChain`, of any length. That each other
  certificate is named as an issuer is part of `SingleChain`, and needed: put in front, a CA that
  nobody names is taken for the leaf.
* **`SnpEvidenceProofs`** - `ChipIsTheSigners` and the types, for any certificates, reports and
  files; and `GenuineIsAccepted`, by an invariant that says that nothing is refused before the
  VCEK is loaded on account of it, and that its chain of three verifies.
* **`CcaEvidenceProofs`** - all properties of `cca`, for tokens of any length and contents. The
  decoder comes first: `End` and `Value` are recursive functions on positions, and there are such
  functions because an item's contents start behind it (`EndEquation`, `ValueEquation`, both by
  `Descent` on positions); what is found lies within the text (`ValueType`). Then the encoder:
  `enc_head` writes the shortest of all forms a number has (`EncHeadIsShortest`), each form is read
  as that number (`HeadIsRead`), and so is each string, tag, array and map put together of them,
  wherever in a text it stands (`StringForms`, `TagIsRead`, `ListIsRead`). From these:
  `SignedBytesAreExact`, and with it that one signed message cannot be cut into a header and a
  payload in two ways (`SigStructureIsInjective`), on which `TheSignersIdOnly` rests;
  `GenuineTokensPass`, by the invariant `Passes` that says what each step has found of the parts a
  token was put together of. `IInv` adds to the types that what was taken apart is shorter than
  2^30, that the signature checked stays that of what was taken apart, and that the chip id is the
  one claimed there.
* **`RaClientProofs`** - `SecretsReachTheEnclave`, `ResultComesFirst` and the types, for any number
  of runs, contexts and enclaves. `RunInv` says what a run knows at each request: a result is
  positive only for a genuine quote of an expected enclave for this run, and no context is
  exchanged once there is a result to tell.
* **`ChipIdBindingProofs`** - `ReadsInSequence` and the types for texts of any length and contents,
  and `RoundTrip` for every binding that can be encoded. The argument for the latter: `Holds` says
  that a text stands in another at an offset; what `DerTlv` puts together, `GetObject` takes apart
  in each of the three forms of a length (`TlvIsRead`); and `ToRead` says, before each read, which
  parts of the binding still stand from the offset on.

Model-checked only: `RevocationReachesCrl` and `ContextsAreDestroyed` (liveness under fairness), that
the parser reads the lines of `cli` as they are meant (`LinesAreReadAsMeant`; what a fold computes
for every sequence of words is an induction over data), and of course the violated properties.

## What is left out, and why

* **Power loss.** A crash kills a process; the order in which the file system persists data is not
  modelled. The code never calls `fsync`.
* **Debug enclaves.** The client never looks at the debug attribute, so that an enclave of the
  required identity that was started for debugging passes its checks, and the server can read its
  keys. Such enclaves lie outside of what `SecretsReachTheEnclave` says; `Expected` has none.
* **MAA** tells the truth, and a secret shared by two keys is known to their owners only. The
  MRENCLAVE check is switched off in `ra`, as where several builds are admitted.
* **OpenSSL.** Signatures are perfect: a document names the key that signed it. Path building and
  the order of checks are modelled from how the code uses them and marked external in the map.
* **Clocks** are one clock in `TeeAnchor`. Machines whose clocks differ see CRLs expire earlier or
  later by the difference.
* **Widths.** Offsets are unbounded naturals. `size_t` has 64 bits and all fields 16 or 32, so that
  no sum in the walks overflows. The cast of the PEM length to `int` is modelled (`ReadPem`):
  from 2 GiB on the length is negative, `BIO_new_mem_buf` takes what `strlen` returns, and
  `ReadsInQuote` says nothing of such quotes; the code has no limit on the size of a file. The cast
  of the CRL number to `long`, which matters from 2^63 on, is not modelled.
* **Depth.** The CBOR decoder recurses once per level of nesting; the stack that takes is not
  modelled. Integers of 2^30 and more are one value (`Huge`), which no key equals.
* **Tags of more than two bytes** in `ASN1_get_object` count as failures; they hold none of the
  four tags a binding has, unless they are padded.
* **Commands as wholes.** `CommandLine` has no overlap and no kills; those are in `RevocationStore`
  and `CaFiles`. Its properties are about commands that run one after the other to their end. Of
  failing reads it has those of the DB, which go unseen; any other file that cannot be opened is
  refused as one that is not there, and changes nothing. The dates and reasons of entries are
  `RevocationStore`'s. A save that fails leaves a temporary file, which nothing reads. A text that is cut
  is refused by all that load it (a CRL cut behind its first line would read as an entry of a DB).
  Within the enumerated lines, no endorsement has a CA's name as its subject, and no quote is given
  for a certificate, although an SGX quote holds PEM certificates. `secp256r1`, which `sig_md_for_curve`
  knows and OpenSSL may not, is left out of `Curve`.
* **Text, the DER within Intel's SGX extension.** The parts of a DN are good or bad.

## Plan

Written so far, the most important behaviour first: `RevocationRegister`, `RevocationStore`,
`TeeAnchor`, `CaFiles`, `X509`, `PckChain`, `PckEvidence`, `SnpEvidence`, `ChipIdBinding`, `Cbor`,
`CcaEvidence`, `RaClient`, `Files`, `CommandLine`. Next:

1. A composition of the evidence modules with `TeeAnchor`: `ExtractChip` as the abstract
   specification, the evidence modules as its implementations (refinement by TEE type).
2. Proofs: that `TeeAnchor` with its DB replaced by `RevocationStore`'s implements `TeeAnchor`.
