# A verification project for bitcoinfuzz

bitcoinfuzz is a differential fuzzer. One process hands each input libFuzzer
generates to many implementations of Bitcoin and Lightning, written in a dozen
languages, and stops when two of them answer differently. What can go wrong in
such a program is quiet: a disagreement that is never compared, an answer of an
earlier input that is compared with one of this input, a library that stopped
answering long ago, a mutator that destroys the structure it is meant to keep.
None of these crashes, and a campaign that suffers from them looks healthy.
These TLA+ modules state what each part promises, check it on small instances
with TLC, and prove the core of it for all instances with TLAPS.

Paths below are relative to the repository (`src/` in `PROJECT.json`).

## 1. Inventory

| Component | State | Operations | Interacts with |
|---|---|---|---|
| Entry points: `main.cpp`, `include/bitcoinfuzz/module_registry.h`, `module_loader.h`, `module_defs.h`, `modulelogger.cpp` | the registry's enabled set, the logger's list, `g_target` | `LLVMFuzzerInitialize`: parse and validate `MODULES`, read `FUZZ`, construct modules; `LLVMFuzzerTestOneInput` | libFuzzer calls it; fills the driver's map; the JVM loader asks the registry |
| Driver: `driver.cpp`, `driver.h`, `basemodule.h/.cpp` | the module map; per input `last_response` and `last_module_name`, twice in two targets | `Run` and 43 target handlers | calls a virtual function of every module, dies by `assert` |
| JVM loader and bridges: `helpers/jvmloader.cpp`, `modules/{eclair,lightningkmp,bitcoinj,bitcoins}/module.cpp` | one JVM, per bridge the class and method references, the exception pending in the JNIEnv | create once, `init_jvm`, a call per target | four bridges share one JVM, one class path and one JNIEnv |
| PSBT mutator: `custommutator/mutators/psbt.h` | none between calls; the corpus carries its output back to it | parse, one to three of six mutations, serialize | libFuzzer calls it; calls `LLVMFuzzerMutate` |
| Onion mutator: `custommutator/mutators/onion.h` | none between calls | peel the packet, mutate TLV payloads, wrap it again | as above |
| Lightning text mutators: `bolt11.h`, `bolt12_offer.h`, `customcrossover.cpp` | none between calls | decode, mutate, encode; crossover of two inputs | as above |
| Fixed-format mutators: `extended_key.h`, `p2p_message.h`, `p2p_lightning_message.h`, `schnorr_signature.h`, `secp256k1_signature.h` | none | rewrite a header, a checksum, or a field in place | as above |
| Python bridges: `modules/{electrum,pycoin,embit,pyhdwallet,pybitcoinkernel}` | one interpreter, a finalizer flag per module and kind of call | initialize on first use, import, call, convert, clean up | several modules share one interpreter |
| QuickJS bridge, Node runner: `modules/bitcoinerlabminiscript`, `modules/bluewalletsp` | a runtime set up in stages; a child process and two pipes | one call, or one request line and one answer line, per input | a failure is `abort()` |
| Native wrappers: the other directories of `modules/` | none of their own | convert, call the library, format | called by the driver |
| Vendored code: `custommutator/utils` | none | bech32, base58, hashes | used by mutators |
| Build and campaign: `Makefile`, `scripts/`, Docker files, `.github/` | files | build, run, merge corpora | outside the process |

What makes the parts correct, and where it is hard:

* **Driver.** A finding is reported exactly when two modules disagree. Hard,
  because an answer is only compared with the *last* one, modules may decline
  to answer, some targets leave modules out, compare a part of the answer, or
  keep two chains, and one target forgives some differences. Everything is
  sequential: no handler yields.
* **Start-up.** The modules asked for are the modules that run, or the process
  does not start.
* **JVM bridges.** An empty answer must come from a library, or have a cause on
  this very input. Hard, because initialization is lazy and repeated, and
  because the pending exception is state four bridges share across inputs.
* **Mutators.** The output parses again, fits the buffer, and loses nothing that
  would have fitted. Hard, because a mutator's output is its next input, and
  because a target looks at the output only after a checksum, a seal or a
  signature held.
* **Python, QuickJS.** A verdict is the library's about this input; no stage of a
  call leaves a reference, an exception or the GIL behind. Hard, because any of
  half a dozen stages may fail and five modules share one interpreter.
* **Node runner.** Requests and answers stay in step, a call ends, the runner
  ends with the fuzzer. Hard, because two processes hold the ends of two pipes
  and either may die at any point.
* **Native wrappers.** Libraries in five languages must give one answer, one word
  for a refusal, and their strings back. Hard at the edges where a wrapper bends
  its library: numbers at and beyond the curve order, sums through zero,
  separators inside pushes, counts in nine bytes, empty plaintexts.

There are no threads in the driver's own code, nothing is persisted by it, and
no message can be lost inside it; the two processes of the Node runner are the
only concurrency.

## 2. Modules and runs

| Module | Models | Checked by |
|---|---|---|
| `Targets` | what each handler does around its loop: early returns, skip lists, the compared part of an answer, the exemption | (used by the next two) |
| `DifferentialOracle` | the promise: modules heard in any order, a finding when two of those heard disagree | refinement |
| `Driver` | the loop of `driver.cpp`, and the death of the process | `MCDriver` |
| `JvmBridge` | `jvmloader.cpp` and the four bridges | `MCBridges` |
| `Startup` | `LLVMFuzzerInitialize` | `MCStartup` |
| `CompactSize` | the integer codec of `psbt.h`, also under `OnionMutator` and `Sighash` | `MCPsbtMutator` |
| `PsbtMutator` | `LLVMFuzzerCustomMutator` of `psbt.h` | `MCPsbtMutator` |
| `OnionMutator` | `onion.h`: opening, TLV codec, mutations, sealing | `MCOnionMutator` |
| `Bech32`, `TextMutators` | `utils/bech32.cpp` with its error locator; `bolt11.h`, `bolt12_offer.h`, `customcrossover.cpp` | `MCMutators` |
| `Base58`, `FixedFormats` | `utils/base58.cpp`; the five mutators of fixed formats | `MCMutators` |
| `PythonBridge`, `QuickJsBridge` | the five Python modules; `bitcoinerlabminiscript` | (composed by the next) |
| `ScriptBridges` | both interpreters in one process, asked one after the other | `MCBridges` |
| `SilentPayments`, `NodeRunner` | BIP-352 outputs in four implementations; the Node process and its pipes | `MCNodeRunner`, `MCNative` |
| `ForeignStrings` | strings the Go, Rust, C# and kernel libraries hand out | `MCNative` |
| `ConsensusAnswers` | transactions, blocks, scripts, merkle roots, AES, Bech32, BIP-32 in the native modules | `MCNative` |
| `CurveTargets` | keys, ECDSA, ECDH, Schnorr, ElligatorSwift, MuSig2, silent payments in the native modules | `MCNative`, `MCCurveTargets` |
| `Sighash` | the gate and splice of `SighashComputeTarget`, and four ports of the signature hash | `MCNative`, `MCSighash` |
| `DriverProofs` | proofs about `Startup` and `Driver` | TLAPS |
| `RuntimeProofs` | about `JvmBridge`, `ScriptBridges`, `NodeRunner` | TLAPS |
| `PsbtMutatorProofs`, `OnionMutatorProofs` | about the module named | TLAPS |
| `MutatorProofs` | about `TextMutators`, `Bech32` and `FixedFormats` | TLAPS |
| `NativeProofs` | about `CurveTargets`, `SilentPayments`, `ConsensusAnswers` and `Sighash` | TLAPS |
| `CodecLemmas` | lemmas about `CompactSize`: `Decode` inverts `Encode`, and accepts nothing else | TLAPS |
| `SequenceLemmas` | lemmas: least elements, recursive functions, sums, collections, concatenation | TLAPS |

`ScriptBridges`, `MCMutators` and `MCNative` compose components that share one
process or one build: one thread runs, so that while one component has a call
under way the others are idle; an abort of one ends the others without the
handlers of `exit()`.

Operators whose comment begins with "Slip" are plausible mistakes in the
definition that follows them; each property is shown to notice one of them.

### Driver

`target` is `g_target`. `last` and `lastName` map a chain to `last_response` and
`last_module_name`; most targets use the chain `"main"` only, `address_parse`
and `merkle_root_compute` also use `"side"`. `pos` is the iterator over
`std::map`, whose order is `Order`. `answers` and `cause` are history.
`BeginRun` is `LLVMFuzzerTestOneInput` up to the loop or the early return,
`SkipModule` the `continue` of a skip list, `AcceptAnswer` an iteration in which
nothing contradicts the answer, `ReportMismatch` and `ReportMalformed` the
assertions, `ModuleDies` a library that ends the process, `RejectTarget` the
unknown target. An answer is a class (`tag`) the handlers tell apart and a
`body`. Inputs are reduced to the features the handlers test: length, first
byte, opcodes that occur, two bech32 lengths and four traits. Handlers are
assumed to be compiled with assertions on: no build file of the repository
defines NDEBUG.

`Oracle == INSTANCE DifferentialOracle WITH verdict <- Verdict, heard <- answers`
is the refinement mapping: the oracle knows no order and no last answer.

* `driver_chains`: `TypeOK`, `BlamesRealPair`, `LastIsLatest` and
  `ImplementsOracle` for four modules, one target of each of the 13 kinds of
  comparison and an unknown one, three inputs on both sides of the tests, two inputs in a
  row. Two texts per answer suffice to differ, four modules give a pair with
  two others between, two inputs let something be left over.
* `driver_addrv2`: `ForgivesOnlyNearBtcd`, what the exemption of `addrv2` still
  guarantees when Btcd is in the middle of the map.
* `driver_addrv2_masks` (a violation): the comment on the exemption says
  mismatches *involving btcd* are skipped. After one is skipped the later
  answer becomes `last_response`, so that Bitcoin's answer is never compared
  with the answer of the module behind Btcd: two modules other than Btcd
  disagree, and the input counts as agreed.

### JVM bridges

`enabled` and `built` are chosen freely: which modules the registry has, and
whose jars are there. `jvm` is the loader's pointer, `ready` the bridges with
`jvm_initialized` or `init_ok`, `pending` the exception in the JNIEnv, by the
bridge whose library threw it. `reply` and `disturbed` are history. A target
walks its callers in the order of the module map; each call is one action:
`AnswerForNoBridge` or `AbortForNoBridge` (bitcoins) when `init_jvm` fails,
`LibraryAnswers`, `LibraryThrows`, `CallRefused` (JNI gives null amid an
exception), `AnswerLostToException` (bitcoins), `OutOfMemory`. A JNI call amid a
pending exception is undefined; the model lets it succeed or give null.

* `bridges` (the JVM side; the run also has the side of Python and QuickJS, below,
  in behaviours of their own): `ReadyIsOwnClass`, `SilenceHasReason` and
  `ExceptionHasThrower`, five targets, all enabled and built sets, three
  inputs: an exception of the first is still there on the second and cleared on
  the third.

Three observations, none contradicted by a document: lightningkmp and bitcoinj
ask for the same class name `wrapper/Wrapper`, so that bitcoinj never becomes
ready when both jars are on the class path; an exception that eclair,
lightningkmp or bitcoinj leaves pending outlives the input; and bitcoins takes
such an exception for its own, and drops its answer.

### Start-up

A text is a sequence of symbols (comma, blank, word). Each step of
`parseModuleList`, of the validation loop and of `LoadModules` is an action, and
the three ways out are phases. `log` is the logger's list.

* `startup`: `LoadsWhatWasAsked`, `AbortsForUnknown` and `LogIsMap` on
  every text of up to five symbols over two compiled names and one that is not:
  enough for three items, an empty one among them, and for blanks on both sides
  of a name. `Asked` defines what the user asked for without a parser.

### PSBT mutator

`buf` is the fuzzer's buffer. `ReadRecord`, `CloseMap` and `StopParsing` are the
rounds of `parse_map` and `parse_psbt`; one action stands for each case of
`mutate_maps`; `Finish` and `UseTemplate` write the output, cut at `maxSize`.
`PickInput` is libFuzzer taking another input, and without it the next call gets
the mutator's own output. `made` and `cut` are history: the maps written into
`buf`, and whether `max_size` cut them. A byte has `Base` values; the code's
`Base` is 256, TLC's is 5, where the escapes are 2, 3 and 4 and a length of two
already needs one. Integers are unbounded here: the code subtracts before it
compares (`keylen.value > size - offset`), so that no sum of its can wrap.

* `psbt_mutator`: `Structured`, `ReadsCanonically`, `ReadsBackItsOutput` and
  `OutputFits`, two calls with one or two mutations each, on an empty buffer, a
  wrong magic, whole, cut and non-canonical containers, and records whose lengths
  lie on both sides of every escape, in output that is complete and output that
  is cut. Every text of up to six bytes behind the magic is parsed once
  (`CodecInit`; the constraint `CodecTextsAreParsed` keeps those texts from being
  mutated too, which would only repeat what the corpus shows).

### Onion mutator

A packet is `hop`, what was encrypted and under which key, and `hmac`, what was
sealed. `Open` is the part of `LLVMFuzzerCustomMutator` up to the decryption
(`key` and `pub` are the keys found in the packet), `MutateRaw`, `BeginMutations`
with `MutateOnce` and `CloseMutated`, and `BeginGenerated` with `AddGenerated` and
`CloseGenerated` are the three strategies, `Close` re-encrypts and seals.
`parse_tlv_hop_payload` and `serialize_tlv_hop_payload` are modelled byte by byte:
the early ends of the parser, the wrap-around guard, the value that is cut.

* `onion_mutator`: `PacketIsSealed`, `ReadsBackItsOutput` and
  `GeneratedIsForwarding`. Eighteen bytes of payload hold a few records;
  the payloads include a legacy one, lengths behind the data and types out of
  order; one key gives no shared secret. Numbers have eight digits, so that types
  around zero and the largest occur.

### Text mutators and fixed formats

`text` is a corpus member, `Mutate` and `CrossOver` what libFuzzer does with it;
`data` and `max_size` the same for the fixed formats, whose mutators are one
action each, the repair of checksum, type or signature included. What
`LLVMFuzzerMutate` leaves is a parameter: it is allowed any byte. The Bech32
checksum is computed in GF(32), and its error locator in GF(1024), as
`bech32.cpp` does.

The sizes of the cross-over are `size_t`: `Minus` wraps around at `SIZE_MAX`, and
`Reservable` is what a vector can hold. The room for a prefix (`RoomForHrp`,
`bolt11.h:175`) is never negative, that for data (`RoomForData`, `bolt11.h:187`) is
-1 when the first invoice has no data and is as long as `max_out_size`. What
`overwrite_part` then reserves throws `std::length_error`, before it looks at its
inputs: `ReserveThrows` is the step that ends the process (`thrown`). `insert_part`
reserves nothing it has not measured, and with an empty part it returns.

* `mutators`: `TextMutatorsHold` joins five parts: the mutator of invoices leaves
  one that decodes whenever its dummy fits (`MutatorKeepsBech32`) and that has
  the prefix or the data of its input (`OnePartChanges`), an offer stays an offer
  (`OfferDecodes`), `Decode` is the inverse of `Encode`
  (`DecodeInvertsEncode`), and the cross-over of invoices ends the process only for
  one without data that fills the buffer (`ThrowsOnlyWhenFull`; a seed is such an
  invoice). `FormatHolds`: the repair of checksum, type or signature is over
  what the target will read. `BuffersAndCodecsHold`: nothing beyond
  `max_size` (`BufferHolds`, with the types), one or two replaced characters are
  located exactly (`LocatesErrors`), base58's size asserts hold and its texts are
  read back (`Base58ReadsBack`), extended keys with them (`ExtendedKeyReadsBack`).
  Sizes 3, 11, 12 and 16 leave room for nothing, for the dummy only, for the
  input and for more. `SIZE_MAX` is 2^30 - 1: any number far above the sizes does.
* `text_mutators_cross` (a violation): the header of `bolt11.h` promises a corpus
  "that consists entirely of correctly encoded bech32 strings"; when the first of
  two invoices leaves no room for a prefix, the cross-over encodes an empty one,
  and the string does not decode.
* `text_mutators_room` (a violation): `overwrite_part` is said to write "up to
  max_out_size" (`customcrossover.h:15`), and the minimum of 9 characters to keep
  lengths from going below zero (`bolt11.h:48`). For an invoice of eleven characters
  without data, and eleven to fill, the room for data wraps around and the cross-over
  does not return (`CrossOverReturns`).

### Python and QuickJS

`call` is the call under way: the copy of `call_python_function`, with static
flags of its own, and the input. `Obtain`, `GivesInput`/`SetItem`, `CallObject`,
`Convert` are its stages, `StageFails`, `NotCallable` and `CallRaises` their
failures, `Cleanup` the label they jump to. `held` is the set of references the
call owns, `inputRefs` those on the input object, whose ownership
`PyTuple_SetItem` takes over. `RunHandler` is `python_cleanup` at exit. The
adapters (`*_lib.py`) decide what a verdict becomes: `Electrum`, `Embit`,
`Pycoin`, `Hdwallet`, `Kernel`. `QuickJsBridge` has one action per stage of
`init_js` and of a call.

* `bridges` (the script side): `VerdictsAreLibrarys`, `InterpreterTidy`, `EngineHolds`. Two
  calls into Python, so that the second meets what the first left, in the same
  module or another; two into QuickJS; Python packages present or not. A stage of
  `init_js` that fails ends the process, so the second call meets an engine that is
  whole, or none.

### Node runner

Two processes. The wrapper goes through `StartRunner`, `WriteRequest`, `Flush`,
`ReadAnswer`; the runner through `HandleLine`. `inWriters` and `outWriters` are
the holders of the write ends: the end of file is seen only when nobody holds
one. Every way to `fail()` is a step: no runner (`StartFails`), a runner whose pipes
get no stream and which meets the end of its input (`FdopenFails`), an error of the
write that is no SIGPIPE (`FlushFails`), the end of its output (`ReadEof`).
`NodeDies` may happen at any point, `FuzzerEnds` between calls. `RequestType`
is what the driver can draw: at least one key and one recipient, and vectors whose
lengths go together.

* `node_runner` under `FairRunnerSpec`: `AnswersThisInput` (every answer is BIP-352's
  for this input, and silence has the reason the skip is for), `RunnerInStep`
  (one line under way, none unexpected, and whoever waits has a line or the end of
  file to wait for), `CallEnds` and `RunnerEndsWithFuzzer`.
  The curve has order 3, the least with two keys that cancel and a third behind
  them; up to three keys, two recipients.

### Native targets

`DrawForeign`, `DrawConsensus`, `Draw` and `DrawSighash` take an input, one action
asks one module, and a last one returns to the fuzzer. Libraries are external:
what they answer is arithmetic on small numbers, or a choice. The modules of the
repository are tables and operators, one per method.

* `ForeignStrings`: one table per wrapper says how it treats the pointer it gets:
  tests it, asserts, skips a word, copies, and whom it gives the string back to.
  `StringsAreOwned`: nothing leaks on any path, no null is read, no string goes to
  another allocator. `OneWordForRefusal`.
* `ConsensusAnswers`: `ConsensusAnswersAgree` compares as the driver does. It has
  content for transactions, merkle roots, AES padding and groups of bits, where the
  ports differ; for scripts, blocks and extended keys the wrappers add so little
  that their answers agree largely by the shape of the model.
  `AcceptsNoInflation` counts without wrapping around; `RootNamesOneList` is
  CVE-2012-2459, on all lists of up to eight leaves; `ComparedAddressIsRead`
  joins the driver's formula for the length of a prefix with what the encoders
  write. Amounts have four bits, money fits twice. `Paid` is Core's signed sum
  and `TotalOut` libbitcoinsystem's guarded unsigned one, recursive functions on
  the number of outputs added; `ConsensusDraws` says what the driver draws.
* `CurveTargets`: `AnswersAgree`, `NobodyDropped`, `OutputsFollowBip352` over a
  curve of order 5 and a field of 7, for scalars from zero to beyond the order.
  `PassOver` is the `continue` of `PubkeyParseTarget` for K256. Two divergences the
  code leaves open are exempted by name (`KnownToDiffer`).
* `Sighash`: `RemainderIsHashed` says without the ports which part of the script
  each of them hashes; `GateAndSplice`: the splice of the signature leaves no
  trace, and no script past the gate makes btcd bow out; `PreflightBoundsNewTx`:
  gocoin allocates for no count beyond the bytes at hand.
* `native`: all of these, one input after the other.

### Deadlock, fairness, liveness

Deadlock checking is off where a process really ends: it dies of an assertion,
aborts, exits, or meets the bound on its inputs (`MaxRuns`, `MaxCalls`, `MaxRequests`,
`MaxSteps`). `native` takes inputs for ever and is checked for deadlock.
Fairness is assumed of the Node runner only. `WF_vars(WrapperStep)`: the wrapper is
straight-line code, and a call that has begun runs on whenever it does not wait
for the other process. `WF_vars(NodeStep)`: Node's event loop hands every line, and
the end of its input, to the script. No fairness is assumed of calls (the fuzzer
need never call) nor of death (`NodeDies`, `FuzzerEnds`). `CallEnds` then rests on
who holds the write ends, not on the runner living. Nothing else is claimed to be
live: whether a library call returns is up to the library, and libFuzzer's
schedule is not part of this repository.

### Observations

Met while modelling, and kept here because no run is about them:

* lightningkmp and bitcoinj ask for the same class name `wrapper/Wrapper`.
* `bolt11.h:90` says a byte outside 33..126 becomes a lowercase letter; from 128
  on, `char` is signed, and it may become an upper-case one; the mutator then
  falls back to its dummy. The data mutation ignores the length LLVMFuzzerMutate
  returned (`bolt11.h:102`).
* `onion.h`: when the shared secret cannot be computed the packet goes out with a
  stale HMAC; types changed in place may break the order, and what lies behind is
  lost to the next parse; a length field that a cut left without its value is read
  back with an empty one.
* An extended key may be cut at `max_size`, and is then no longer a key.
* btcd verifies Schnorr signatures for keys it has reduced; spdk registers a
  change label that may fail on its own; K256 accepts compact points, which the
  driver skips for it.
* NBitcoin alone answers `script_eval` for an empty script; btcd's case for an
  unsupported segwit version is dead.

## 3. What is proved

TLAPS checks, for every value of the constants that satisfies the named
assumptions. Most give types; those that say more are these. `Base`, the number of
values of a byte, stands for widths as well: a word of eight digits, `EightDigits`,
is a `uint64_t` or a `size_t`.

| Assumption | Says | Justified by |
|---|---|---|
| `Driver.OrderAssumption` | the order lists each module once | `std::map` iterates over distinct keys |
| `CompactSize.BaseAssumption` | at least five byte values | the three escapes, 0 and 1 are distinct; the code has 256 |
| `Startup.DefsAssumption`, `SymbolsAssumption` | `module_defs.h` names no module twice; a name has neither comma nor blank | the file |
| `SilentPayments.OrderAssumption`, `CurveTargets.FieldAssumption` | an order above 1, a key and its negation with different parity unless they are one; an odd field of at least 3 | secp256k1's order and field are odd primes; only this is used of them |
| `NodeRunner.RequestsAssumption`, `CurveTargets.DrawnAssumption` | the inputs are ones the driver can draw | the bounds of `ConsumeIntegralInRange` in `driver.cpp` |
| `ConsensusAnswers.ConsensusAssumption` | twice `max_money` fits in a word | 21e14 against 2^64 |
| `ConsensusAnswers.ConsensusDrawnAssumption` | no empty list of leaves, no empty plaintext, groups of 5 bits to 8 or of 8 to 5, a prefix that fits | the early returns and draws of the handlers, `driver.cpp:797`, `1063`, `1193` and the formula of `bech32_roundtrip` |
| `Sighash.SighashAssumption` | scripts of up to 4096 and signatures of up to 100 bytes, twice the transaction's length fits in a word | `driver.cpp:914-930`; lengths are Go ints, of 63 bits |
| `PsbtMutator.BoundsAssumption`, `TemplateAssumption`, `KnownRecordsAssumption` | `max_size` and every value, with what three mutations add, fit in a word; the records the mutator brings along have a key | lengths are `size_t`; the literals of `psbt.h` |
| `OnionMutator.SizesAssumption`, `RecordsAssumption` | the payload has 18 bytes at least; a value, with what three mutations add, fits in a word; types are words | `HOP_PAYLOADS_SIZE` is 1300; `size_t` and `uint64_t` |
| `TextMutators.TextAssumption` | inputs are bytes, the dummy is an invoice, `max_size` is within `CharLimit` (100000), `SIZE_MAX` at least twice that | the literal of `bolt11.h`; `size_t` has 64 bits; see below |
| `FixedFormats.PayloadAssumption` | an extended key has room for its version | 78 bytes, 4 of them the version |

`max_size` is libFuzzer's, 4096 unless a seed or `-max_len` says more. Beyond 100000
characters `Decode` refuses every text, and the mutators' promises with it:
the assumption is where they end, not a convenience. Two hypotheses stand in the
theorems themselves, since they speak of all byte strings and TLC cannot try them:
`MutantsAreBytes` (what `LLVMFuzzerMutate` makes of bytes is bytes) and
`FixedSurroundings` (the same for the fixed formats, a checksum has four bytes,
and the digest and the signers give bytes).

The 18 bytes are two numbers of nine: with less, the first record's type may be cut
in the middle, and what is read in its place may be anything.

TLC evaluates each assumption of the table on the runs.

### Driver

`TypeCorrect`, `NothingStale` (`LastIsLatest`) and `NoFalseAlarm`
(`BlamesRealPair`) follow from one inductive invariant, `Inv`. Neither property is
inductive: a step that accepts an answer keeps `LastIsLatest` only because no
module ahead of the iterator has an answer of this input (`AskedInOrder`), and the
step that dies needs `LastIsLatest` for `BlamesRealPair`; `WellFormedAnswers` keeps
answers without a merkle flag out of the comparison, and `DiesOnce` makes a cause
final.

`DriverImplementsOracle` is the refinement, initial states and steps: it adds
`OneValue`, that all answers heard in a chain have the value of the last, which
turns "differs from the last" into "differs from some". It assumes that `addrv2`
is not the target or `Btcd` not a module, since the exemption breaks exactly this.

`ForgivesLittle` is about the rest, and needs no such assumption: what still holds
on `addrv2`. Its invariant, `Forgiven`, is a disjunction. Until a mismatch is
tolerated the last answer stands for all (`LastStandsForAll`); from then on it does
not, but the toleration has left marks (`BtcdWasNear`): an answer of Btcd, and one
that names a network of the two it skips. `ToleranceLeavesMarks` finds the second
answer of the pair through `LastIsLatest`, `MarksStay` says that answers are
written once, by `AskedInOrder`.

`FittingHrpLength`: the formula of `bech32_roundtrip` for the longest fitting HRP
does not wrap around and is exact for programs of 2 to 40 bytes.

### Start-up

`LoadsAsked`, `AbortsExactly` and `LogLists`, for texts of any length.
`Asked` is defined on the whole text, the parser has seen a prefix: the invariant
says that `requested` holds what the text up to the last comma read asks for
(`AskedUpTo`), then, while names are validated, that those before the index are
compiled and enabled, then, while modules are loaded, that log and map hold the
enabled ones of the table so far. The step is `NextStretch`: one more token adds
the one name it holds or none. That `Trimmed` finds that name is `TrimmedValue`,
and that there is only one is `TrimmedUnique`.

### JVM bridges

`TypeCorrect`, `OwnClassOnly`, `SilenceExplained` and `ExceptionExplained`, from an
invariant that joins the properties with `ReadyResolved`: a ready bridge has a
running JVM and found its own class. That is stronger than `ReadyIsOwnClass`,
which says what it means for the one pair of bridges whose classes share a name.

### PSBT mutator

`TypeCorrect`, `StructureKept` and `OutputAlwaysFits`, with the invariant that
every record of every map, and of the map being read, has a key: without the
records of the map being read, `CloseMap` would not keep it. It also bounds the
values by the mutations still to come (`Sized`), so that every length written is
one the codec can write.

`OnlyCanonicalIsRead` (`ReadsCanonically`): the maps read so far, serialized, stand
at the start of the buffer, and the parser is right behind them (`Canonical`). This
holds whatever libFuzzer offers, since a length is accepted only in the form in
which it would be written (`DecodeCanonical`); a record that is accepted is the text
it was read from (`RecordStands`).

`OutputIsReadBack` (`ReadsBackItsOutput`) adds two parts. `Written`: the buffer is
what was written of `made`, or its first bytes. `InOrder`: the maps and records in
hand are the first of `made`. From `Canonical` and `Written` the parser is at the
place where the next map or record of `made` stands (`WhatIsNext`); a text is read
in one way only (`LengthOnce`, `RecordOnce`), so that what it reads next is that; and
it stops before the end only when something was cut (`StopsAtTheEnd`).

### Onion mutator

`EveryPacketIsSealed`. `PacketIsSealed` is about the packet a call leaves; while one
goes on, the payload is open under the secret of the keys the call goes by
(`OpensWithItsKeys`), which no mutation touches, and `Close` seals under the same
(`CloseKeeps`). `HopIs` says that a hop is its secret and its payload and nothing else,
so that an HMAC over the two is one over the packet.
`EveryGeneratedForwards`: the records of a payload under construction ascend and have
the types 2 and 4 at every step (`Generating`). Insertion keeps them sorted, not
strictly; `UniqueIs` says that `std::unique` leaves one record of each type.

`EveryOutputIsReadBack` (`ReadsBackItsOutput`) is the longest argument of the project.
The serializer lays the records one behind another up to the cut (`Laid`,
`AllLie`), and the rest is zero. The parser's loop is in step with them (`InStep`) as
long as they ascend, for a number that stands somewhere is read from there and
nothing else is (`BigSizeReadBack`, `ReadLies`). It leaves the loop (`Over`) at the
first type that is out of order, which a zero behind the first record is
(`StopsAtBlank`), at a record that was cut, or at the length announced; a record that
lost its value to the cut and kept its length may be read as one without a value.
The loop has a turn for every byte, and a record takes two bytes at least
(`SizesGrow`), so that it is over before the turns are (`LoopReads`).
The invariant needs `RecordsFit` for this, that the values have room for the
mutations still to come, so that no length written is beyond a word, and
`PayloadIsWritten`, that a payload between two calls is what was written of the
records; `ReadsBackItsOutput` alone says nothing of how the payload came about. TLC
has checked these parts on the instance of `onion_mutator` before they were proved.

### Text and fixed-format mutators

`TextMutatorsAreSound` joins `EveryMutantDecodes`, `OnePartIsKept`, `EveryOfferDecodes`,
`DecodingIsInverse` and `OnlyFullBuffersThrow`, for strings of any length up to the decoder's limit and any
bytes libFuzzer puts into a part. The first four rest on one fact about `bech32.cpp`: the six
values `CreateChecksum` computes are accepted, and no other six are
(`ChecksumAccepted`, `ChecksumOnly`). The argument, from below:

* *The field.* Addition in GF(32) is a recursive function over pairs of numbers, that
  exists because each call halves its arguments (`RecursionByLevels`). That it is an
  exclusive or, commutative, associative and its own inverse, is `SumLaws`, by induction
  on the sum of the arguments. Of multiplication only its type is needed.
* *The checksum.* `PolyMod` is a left fold (`PolyModJoin`). Fed six values behind a prefix,
  it ends in the state six zeros would have led to, plus those values
  (`SixMore`): the i-th value enters the last place and moves one up with each step, and
  before it reaches the first the six are through (`DifferStep`). Hence a state
  determines the six values and is reached by them.
* *The alphabet.* `CHARSET_REV` undoes `CHARSET` in both cases (`RevOf`, `RevEitherCase`),
  and the last "1" of a line is its separator, since "1" is not in the
  alphabet (`LineFound`). So what is encoded decodes to its parts (`EncodeReads`), what
  decodes is what its parts encode to, in lower case (`DecodeIs`), and its upper-case form
  has the same parts (`UpperCaseAlike`).
* *The mutators.* `Bolt11MutatorIs` and `Bolt12MutatorIs` say what each leaves: a text
  encoded from one part of the input and one libFuzzer changed, `Sanitize`d into the
  visible characters, or the dummy. The cross-over of offers works on values
  (`CrossIn`). The invariant, `TextInv`, remembers with the text what the last call was
  and which of these it left (`Invoice11`, `Offer12`).

* *The rooms.* An invoice is as long as its parts and seven, and its prefix has a
  character (`DecodeIs`). So the part that stays and eight fit into any buffer the
  input fits into, unless there is no data and the buffer is full (`RoomIs`).

`NothingBeyondMaxSize` (`TextTypeOK`) comes from the same invariant. Where the room
wraps around, `insert_part` has nothing to insert into and the invoice is encoded as it
was, and `overwrite_part` throws: `OnlyFullBuffersThrow` says where that is.

`EveryRepairHolds` (`FormatHolds`): a repair leaves the bytes it is computed from alone, and
what it writes is what the target reads in that place (`ReadOver`, `ChecksumHolds`,
`SignatureIs`); a
signature that does not fit leaves the input raw. It covers the P2P, Lightning, Schnorr
and ECDSA formats, with a digest and signers that may give anything.

### Python and QuickJS

`TidyInterpreter`, `HonestVerdicts` and `EngineStaysWhole`, of `ScriptBridges`. What
a call owns is a function of the stage it has reached (`HeldBy`), and so is the
number of references on its input object (`RefsAreHeld`); `ReleasesOnce` says that
`cleanup` gives back each of them once, whether `PyTuple_SetItem` has taken the
input over or not. For the verdicts the invariant keeps, stage by stage, what the
library has judged and that nothing else reaches `Convert`; `TextAdapter` and
`BoolAdapter` say what the adapters make of it. The finalizer needs that handlers
are registered at most once per copy, and only when the interpreter is up
(`OneFinalizer`).

### Node runner

`OwnAnswer` rests on `LockStep`, which says of each line where it may be and whose
request it is, at every step of the wrapper; `StaysInStep` adds who holds the write
ends (`PipeEnds`) and that a wrapper that reads has a line to wait for. That is the
safety half of `CallEnds` and `RunnerEndsWithFuzzer`; that the line comes is
fairness. `HandlerAnswers` is the arithmetic: `index.ts` skips exactly the inputs on
which its library stops at a zero sum and BIP-352 does not, for any curve order and
any number of keys.

### Native targets

The state machines are small, and their invariants say what one expects
(`CurveInv`, `ConsensusInv`: every answer is a module's to this input). The theorems are
about what the wrappers compute.

* `CurveAnswersAgree`, `SilenceHasReason` (`NobodyDropped`), `PaymentsInOrder`
  (`OutputsFollowBip352`). The walk of the two Rust crates over a map of addresses
  gives the recipients' outputs in order (`WalkIsOutputs`, through `NthAtAddress`:
  the n-th output of an address belongs to its n-th recipient); spdk, which
  registers a change label of its own, names the fault the others name unless that
  label fails (`SameFaults`; one of the two exemptions); rustmusig2's packed tweaks are the other modules' (`PackedTweaks`); the parity
  btcd forces is the one the libraries use (`ForcedParityHolds`).
* `NoInflation`: `CountsAgree` says that libbitcoinsystem's unsigned guard refuses
  exactly what Core's signed ranges refuse, value by value; accepted totals are then
  the true sums. `TransactionsJudgedAlike` is the part of `ConsensusAnswersAgree`
  this gives.
* `ComparedIsRead`: `FormulaIsExact` joins the driver's formula with the length the
  encoders write.
* `AnswersAreCompatible` is `ConsensusAnswersAgree`: every two answers of the twelve
  targets, as the driver compares them, target by target. Five are more than a look
  at the tables: transactions (`TransactionsAlike`, from `CountsAgree`), merkle roots
  (`MerkleAnswers`: btcd's loop, which doubles the last hash of an odd level, computes
  the levels of the tree and finds its duplicates where the others do), AES
  (`CiphersAlike`: what becomes of a plaintext of whole blocks, and of padding that is
  a whole block), groups of bits (`GroupsAlike`: Core counts what is left over against
  the group it reads, btcd against four bits, and between five and eight that is the
  same) and block reports (`ReportsAlike`). `AnswersAlike` joins them, for any two
  answers as the driver compares them; each answer in the list is a module's to this
  input, which is all the invariant has to say.
* `RootsNameLists` is CVE-2012-2459 for lists of any length. The levels of a tree are a
  recursive function (`LevelWidths`, which halve; `Height`, the first that is one).
  Trees with one root have one height, since going down to the first leaf of one, which
  is no pair, the other ends too (`OneHeight`); then, level by level downwards,
  unflagged levels with the same parents are the same (`LevelBelow`): an only child is
  paired with itself, and a pair of equal children would be flagged.

### Signature hash

`NewTxIsBounded` (`PreflightBoundsNewTx`). gocoin's reader and the walk that goes
before it are one definition with and without its guards. `WalkTogether`: the two go
together, number by number, field by field and stack by stack, until the guarded one
runs short. While it does not, a count is at most the number of bytes it has passed
over, because each field and each item of a stack takes a byte at least
(`FieldsTogether`, `CountedTogether`).

`TheRemainderIsHashed` (`RemainderIsHashed`). A script is a list of whole opcodes with
torn bytes behind them, in one way (`ParseExists`, `ReadingIs`), and a table says where
each opcode ends (`TableHolds`). The ports are loops over offsets; each is
characterised at the offsets of the table, from the last opcode to the first: reading
(`OpsAre`), the scan for separators (`CutIs`, `TruncationsAre`), the deletion of the
signature (`WithoutIs`, `DeletionsAre`) and the serializer that drops separators
(`SerializedAre`). What an opcode is depends on its own bytes only (`SameOp`), so that it
is the same opcode after truncation and deletion. `AnswersAre` puts them together: all
ports that answer hash the same list of opcodes, the one the property describes.

`TheSpliceLeavesNoTrace` (`GateAndSplice`). The driver splices the push of the
signature in at the end of an opcode (`EmbeddedIs`); the list of opcodes is then the old
one with one more in it (`SplicedIs`), and deletion takes it out again. That btcd
always answers follows from the gate: a legacy script it lets through has no torn bytes,
and neither truncation nor deletion tears one.

The invariant, `SighashInv`, says what the modules are handed is what was drawn with
the splice done (`InputIsDrawn`), that answers are the ports' to that
(`AnswersAreComputed`), and that nobody is asked about a legacy script the gate rejects
(`GateHolds`). Without the first the second says nothing of the draw, without the third
there is no parse of the script to speak of.

`CurveSpec`, `ConsensusSpec` and `SighashSpec` are the specifications of one component;
the run `native` composes them with `ForeignStrings`, and the steps of one leave the
variables of the others alone.

### Lemmas on data

The induction theorems of the library take an operator as a parameter, and cannot
be used. `SequenceLemmas` does without: `LeastElement` says that a set of numbers
has a least member, and `SetInduction` turns it into induction over a *set*, which
is a plain value. From these it is proved that a recursive function on the integers
from 0 exists and satisfies its equation (`RecursionExists`), and what the sums
modulo the order (`ResidueSums`), the counts (`CountStep`), the lists of positions
(`Collection`) and the concatenations (`ConcatenationValue`) of these models are. A
loop over offsets that ends at the end of the data is a recursion downwards
(`RecursionDown`); `CountGrows` and `CountReaches` say when a counting loop comes to a
number, `FlattenJoin` what the concatenation of two lists of texts is. `CodecLemmas` has
the digits of a number and back (`DigitsOfNumber`, `NumberOfDigits`), what every encoded
length looks like (`EncodeForm`), and from them that a length written is read
back wherever it stands (`DecodeEncoded`) and one accepted is written as it was read
(`DecodeCanonical`). `OnionMutatorProofs` and
`NativeProofs` rest on both modules, `MutatorProofs` on the first.

### Only model-checked

* `BuffersAndCodecsHold`, but for its part on text buffers (`TextTypeOK`, which
  `NothingBeyondMaxSize` proves). That `LocatesErrors` names every
  error of two characters is a fact about one field of 1024 elements, which TLC decides by trying
  them. `Base58ReadsBack`, `ExtendedKeyReadsBack` and the size of an extended key
  (`FixedTypeOK`) need induction on the digits of two bases at once, and
  that 58^n stays below 256^(733n/1000 + 1), which is no fact of linear arithmetic.
* The cross-over of invoices: it does not keep them decodable, as `text_mutators_cross`
  shows, and it need not return, as `text_mutators_room` does.
* `StringsAreOwned` and `OneWordForRefusal`: tables of constants, which the run
  already walks from end to end; there is no parameter to generalise.
* Liveness (`CallEnds`, `RunnerEndsWithFuzzer`) and ENABLED, which are out of this
  prover's reach. Their safety half is `StaysInStep`.
* That the driver on `addrv2` with Btcd implements the oracle: it does not, as
  `driver_addrv2_masks` shows; `ForgivesLittle` is what holds instead.

## 4. Not modelled

* What the libraries compute: a module is an arbitrary function that may also end
  the process; in the native targets its arithmetic is done on small numbers.
* How structured inputs are cut from the buffer (`FuzzedDataProvider`): the
  outcome is a trait of the input, or the input itself.
* `modules/clightning`, and the wrappers that format what a library parsed
  (descriptors, PSBT, invoices, offers, addresses, P2P messages): long
  conversions without state, whose only decision is a word for a refusal, which
  `ForeignStrings` has for the foreign ones.
* SHA-256, serialization and streams under `custommutator/utils`, copied from
  Bitcoin Core; hashes are parameters here.
* The out-of-memory exit of the JVM is a step of `JvmBridge`, but what libFuzzer
  makes of it is outside the source.
* Logging, `LOG_OUTPUTS`, the tests of the mutators, build and campaign scripts,
  which keep no state of the process.

## 5. Plan

1. *Done*: driver, start-up, JVM bridges, the mutators, interpreters, the Node
   runner, the native targets in which a wrapper decides part of the answer.
2. *Done*: every safety invariant and action property the passing runs check is
   stated by a theorem, but for the three of "Only model-checked"
   (`BuffersAndCodecsHold`, `StringsAreOwned`, `OneWordForRefusal`).
3. Left: the base conversions of `base58.cpp`, as lemmas on numbers in two bases, after
   which the round trip of extended keys is a theorem too; the wrappers that
   format what a library parsed.
