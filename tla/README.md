# TLA+ models of cargo-pvm-contract

This directory models the pvm contract SDK where it decides something: the code that ends up inside a contract (storage,
dispatch, calls, the reentrancy guard, the ABI codec, the allocator), the build that decides what a contract answers to
and what its ABI says, the mock host that contracts are tested on, and the client that submits transactions to a node. The modules are plain TLA+; TLC checks them on the instances named below and
TLAPS proves the theorems of the `*Proofs` modules for every value of the constants. Paths below are relative to
`src/crates/`.

## 1. The system

| component | where | state it keeps | operations | how it meets the others |
|---|---|---|---|---|
| reentrancy guard | `pvm-contract-types/src/reentrancy.rs`, `pvm-contract-macros/src/codegen/dispatch.rs` | a key in transient storage per account; a flag in the memory of each frame | lock, unlock, check, clear-if-held; the dispatch arm around a guarded method | wraps the user method; `return_value` clears what the frame holds |
| host | `pvm-contract-types/src/host.rs` | none of its own | thin wrappers over the uapi; `return_value`, `revert`, `terminate` end a frame | every component goes through it |
| mock host | `pvm-contract-types/src/mock_host.rs` | `MockState` in a `RefCell` | the host methods, snapshot, restore | replaces the host in unit tests |
| StorageVec | `pvm-storage/src/lib.rs` | a length slot and body slots from `keccak(slot)` | push, pop, grow, set, entry, clear, get, try_get, last, iter ... | elements are `Lazy` or nested components |
| Lazy, packed fields, layout | `pvm-storage/src/lib.rs`, `pvm-contract-types/src/layout.rs` | one field's window of a slot, or its slots | get, try_get, set, take, clear | `layout_step` places fields; `alone` lets `set` skip a read |
| Mapping, nested storage | `pvm-storage/src/lib.rs`, `pvm-contract-macros/src/codegen/sol_storage.rs` | derived slots | entry, get, insert, clear, recursive clear of what is inside | keys are hashed to slots; containers, structs and strings nest in each other |
| dynamic bytes codec | `pvm-contract-types/src/storage_codec.rs` | a header slot and body chunks | write, read, clear | `Lazy<String>`, `Lazy<Bytes>`, elements, entries and fields of these types |
| static codec, ABI codec | `storage_codec.rs`, `pvm-contract-types/src/lib.rs`, `alloc_types.rs`, `i256.rs` | none | encode, decode | every argument, result and stored value |
| macro dispatch | `pvm-contract-macros/src/codegen/{dispatch,decode,contract}.rs` | the frame's control flow | deploy, call, route, decode | calls user methods, composes routers |
| builder DSL | `pvm-contract-builder-dsl/src/lib.rs` | arrays of selectors and handlers, a bit set, two handlers | method, payable_method, fallback, receive, dispatch | the same entry points without macros |
| bump allocator | `pvm-bump-allocator/src/lib.rs` | the offset of the next free byte | alloc, alloc_zeroed, dealloc, default realloc | the global allocator of a contract |
| cross-contract calls, precompiles | `pvm-contract-core/src/{call,precompiles}.rs` | buffers of the caller; return data of the host | call, delegate_call, instantiate, extract_output, error decoding | opens new frames |
| code generators | `pvm-contract-macros/src/{abi_import,codegen,signature}`, `pvm-contract-types/src/abi_gen.rs` | during a build: the .sol interface, the items walked so far, the assertions left to the compiler | parse the module, match it with the interface, import a caller's wrappers | produce the code of the components above; the ABI is listed from one source and the router generated from another |
| extrinsics client | `cargo-pvm-contract-extrinsics`, `cargo-pvm-contract/src/extrinsics.rs` | per command: nonce, limits, a subscription | upload, remove, instantiate, call, map_account | one account's commands meet in a node's pool and chain |
| CLI, builder | `cargo-pvm-contract`, `cargo-pvm-contract-builder` | files | build, list the ABI, scaffold, encode, decode | talk to cargo and to the file system; list the ABI of a contract with a .sol file |

What makes this code hard. A frame is sequential, but the frames other contracts open on top of it are an interleaving
the contract does not choose, and any of them may be rolled back. Storage is untyped, so the clearing, packing and length
bookkeeping of one operation decide what a later one reads. Return data is one buffer of the host that every call
replaces, while errors and output buffers outlive it. The entry points carry payability and routing rules that hold
across several layers, and calldata is whatever its sender made it. The extrinsics client is concurrent with everything:
between two of its awaits the best chain grows, forks and drops blocks, other commands of the same account take the same
nonce, and answers get lost. At build time
three readers of one interface, the macro, the builder and the caller's import, must come to the same functions and
types, and each has tables of its own. Nothing is persisted by the program itself, so there is no crash recovery to model; a
rollback is the closest thing to it.

`PROJECT.json` lists the hazards at their lines with the properties that watch them.

## 2. Modules

| module | models | state and actions |
|---|---|---|
| `Reentrancy` | the guard, the exits of a frame, calls, delegate calls | `stack` is the sequence of open frames, each with its account, its method kind, the guard flag and the storage to restore; `lock` and `data` are transient and persistent storage. One action per arm prologue, host exit and call. |
| `StorageSeq` | what a vector promises: a sequence | abstract specification |
| `StorageVec` | the vector over its slots | `length`, `body`, the storage at the start of the call, the live cursor and iterator; one action per method. `shape` is the element type a program chose: elements that share a slot, or that span several. |
| `StorageVecProofs` | the theorems about it, and the refinement of `StorageSeq` | |
| `FieldRecord` | what a struct's fields promise: a record of independent values | abstract specification |
| `Fields` | `layout_step` and its chain, `#[slot(N)]` and `#[slot(raw = KEY)]` and the checks on them, the alone flags, and `Lazy` on the places they assign | `step` walks the chain; `Place`, `Pin` and `BindRaw` declare one field each in `fields`; `Seal` ends the declaration and creates `storage`; set, clear, take, get, clear of the struct |
| `StorageShape` | the types a contract's storage is built from, paths into them, and the calls made there | shared by `Tree` and `Nested`; `TypesAt` is the table of types by path |
| `Tree` | what nested containers promise: a tree of independent values | abstract specification: `leaves` and `lengths` by path |
| `DynCodec` | header, sentinel and chunks of a string in storage | operators, used by `Nested` |
| `Nested` | `Lazy`, `Mapping`, `StorageVec`, `#[storage]` structs and derived value structs inside each other | `store` maps derived keys to slots; one action per method, at the end of any access path |
| `NestedProofs` | the theorems about it, and the refinement of `Tree` | |
| `BumpAllocator` | the allocator | `offset`, the regions handed out, the bytes written |
| `RuntimeProofs` | the theorems about `Reentrancy`, `BumpAllocator` and `Fields`: the guard, the heap and the fields an execution runs on | |
| `Endpoint` | what a contract's entry points promise | a message is refused for a reason that holds, or reaches the one handler its declaration names |
| `Dispatch`, `DispatchProofs` | the code the contract macro generates, step by step, and its theorems; those of the builder and of the pair of them | `program` is the chain of routers, `pc` the point in the generated function |
| `BuilderDsl` | the builder: registrations, then messages | the registered selectors in order, the payable bits, the handlers |
| `FrontEnds` | one contract written with the macro and with the builder, given the same messages | the variables of both; the builder moves when the macro's code has settled |
| `AbiCodec`, `AbiCodecProofs` | encoding of arguments and results, their way to the other side, decoding; the theorems about them | `message` and `sent`, the bytes of `input`, how often they were damaged, what is decoded so far |
| `MockHost` | a method's host twice: the chain, and the mock of a unit test, with what the test does to the mock between methods | storage, lock, return data of both; `callReturns` and `instantiateReturn`, what the test configured; the recorded exit, the snapshot |
| `Calls`, `CallsProofs` | the body of that method: calls, output extraction, error decoding, precompiles; the theorems about both | output buffer, result, last error, on both hosts |
| `Chain` | the node, as far as the client sees it | best chain with what is final of it, pool, streams of status events, bounded faults |
| `Extrinsics`, `ExtrinsicsProofs` | the client's commands, and their theorems | `pc` is the next await of each command; `result` what it reported |
| `SolTypes` | types of a signature: in .sol, in Rust, in canonical form, and what each puts on the wire | operators |
| `Interface` | `#[contract]`'s walk of a module and its match with a .sol file, the assertions rustc evaluates, the ABI that is listed | `phase` is how far the build is; `methods`, `constructor`, `receive`, `errorTypes`, `eventTypes`, `implemented` are the locals of `parse_contract`, `sigAsserts` what it leaves to the compiler. One action per item parsed or rejected, one per end of a phase. |
| `AbiImport` | `abi_import!` of a built contract, from its .sol file or its ABI JSON | `client` holds the wrappers generated |
| `InterfaceProofs` | the theorems about `Interface` and `AbiImport` | |
| `MC*` | values of the constants for TLC | |

How they compose. `Dispatch` and `BuilderDsl` are two implementations of the same `Endpoint`; `FrontEnds` extends one,
instantiates the other, and adds that a message has the same fate under both. `StorageVec` implements `StorageSeq` under
the mapping that reads the elements back out of the slots, `Fields` implements `FieldRecord` by reading each field at its
first byte, and `Nested`, which uses `DynCodec` for every string in it, implements `Tree` by decoding what is at
the key of each path. The three divide storage between them: `Fields` has the fields that share a slot and the alone flag the
compiler derives for them; `StorageVec` has packed elements, the flag it computes for them at run time, malformed
lengths, kept cursors and iterators; `Nested` has what is inside what, with leaves that fill their slots and handles that
are used where they are obtained. An embedded `#[storage]` struct is, for the struct around it, one field of whole slots.
`AbiImport` extends `Interface`: the properties relate the arms of the
router, the listing and the wrappers of a caller. `Calls` extends `MockHost` and runs every operation on the chain and on the mock in step, so the properties of a call are
checked on both and the mock is compared with what it stands for. The chain's callees answer anything; the mock answers what
the test has configured between methods, one entry per callee and one for instantiations. Where the two differ, or the
mock's storage is not the chain's, the mock's run is `astray`: its results are compared no more, and it leaves behind
whatever a run of the method could. `Extrinsics` extends `Chain`, which has no code in this
repository and is modelled from what the client relies on.

`SolTypes` stops at aggregates of elementary types; several returns of a .sol function are elementary. `Interface`
writes one item per impl block and leaves out functions without an attribute, explicit renames that conflict, generics,
and the refusals for a missing `Clone`; it compares the struct of each item with the first as it is met, where the code
does so before the walk, which rejects the same modules. A .sol file may hold functions and constructors of interfaces, libraries
and contracts and functions of its own level: the builder lists all of them, the macro and `abi_import!` see the interface
only, and the constructor of a Rust contract is listed only without a file. JSON text is read by alloy and modelled as the list it stands for.

What is abstracted: selectors, accounts, words and bytes are members of small sets; gas is a counter. `u64` and `usize`
keep a limit (`MaxLen`, `UsizeLimit`, `Usize`), so that additions and multiplications overflow where the code's do.
`AbiCodec` scales a word to two bytes and keeps numbers in its last byte, as the code reads the low eight of 32; `String`
is `Bytes`; additions that the code writes plainly wrap, as in the release profile contracts are built with. A type is a
record of its parts with the constants its traits carry (`IS_DYNAMIC`, `HEAD_SIZE`, `has_custom_types`), and `Types` is
closed under parts; what the traits compute by calling each other on the parts are functions on `Types`. So
are those of `Nested`, where what the code reaches by calling itself on the parts of a value is the set of paths below it, and
a vector's length and a string's are kept in the last byte of a slot. `Nested`
takes keccak256 to have no collisions: a derived key is the way to it. A raw key of `Fields` is a region of its own for
the same reason; that two fields do not name the same key is the program's business (`BindRaw` assumes it, the macro
does not check it). Code outside the repository (pallet-revive: a fresh memory per frame, rollback on revert, commit on
return, transient storage that ends with the transaction; the node) is modelled from how the code uses it and marked
external in the map.

Readings of the code that a reader should know. `PopKeeping` treats a plain `return_value` as a commit and
`PopReverting` treats a trap and running out of gas as a revert. A contract started on a length slot it never wrote
(`corrupt`) stands for raw uapi writes and for a changed layout. In `Calls` a `&self` method has no context to make a
mutating call with; this is the borrow checker's rule, kept as the guard `Gate`. The mock knows no failure of
a call but a revert without data, and none of an instantiation but the missing entry; a test that configures these has
foretold any failure (`Foretold`). A callee without an entry succeeds without data, which foretells just that. `mock_call`
and `mock_instantiate` are actions between methods: a test could call them from the closure of a method it runs, but the
contract's code, which is what runs there, has no handle of the mock.

## 3. Runs

| run | question | bounds |
|---|---|---|
| `Reentrancy` | do guarded sections exclude each other, is a section's data left alone, do views see no open section, is a lock owned and released by its owner only | two accounts, one of which may terminate; four frames, so a section, a call out, a call back and a rejected frame on top; five calls or writes in a transaction. Transactions repeat without end. |
| `StorageVec` | is the vector a sequence; is storage past its end zero; what happens over a corrupt length | an index space of 0..3 and two words per lane: a packed slot half full and full, an element past the addressable space, and a length of 4 that stands for every malformed one |
| `StorageVecStaleCursor` | does grow append a zero element when a leaf cursor is kept (expected violation) | packed elements |
| `Fields` | do fields share no byte, and does a write change its own field only | slots of four bytes, fields of one to four bytes and of two and three slots, pinned at 0 to 2 or at two raw keys, every struct of up to three fields: a field can have sharing neighbours on either side or both, a raw field can stand between two of the chain, and a pin can fall on the first, middle and last slot of another |
| `Nested` | does a nest of containers behave as a tree, and does a value that is gone leave no slot behind | fifteen shapes: every container in every other, strings and structs in both; vectors of up to two elements, two keys, slots of two bytes and strings of zero to three chunks |
| `BumpAllocator` | are regions disjoint, aligned, zero and not refused early | a heap of 6 bytes at address 24, alignments 1, 2, 4 and more, a `usize` of 64 values |
| `FrontEnds` | does every program, macro and builder, implement its declaration, and do both treat a message alike | two selectors, all mutabilities, receive, fallback and constructor; chains of two routers; up to three registrations, so duplicates and the method limit both occur |
| `Calls` | are outputs and errors those of the callee they are taken for, do view methods leave storage alone, does the mock agree with the chain | two callees, of which the mock knows one; one method of three operations, so a buffer, an error and a return data are each overwritten once and read after and a callee answers twice, alike or not; or two methods of one, so a snapshot, a failed method, a restore and another method occur; outputs of no word and one, a revert with data, and a failure `CallError` does not name |
| `AbiCodec` | does what is encoded read back, is it the standard's encoding, and does forged input stay a refusal | words of two bytes, an address space of 48, twelve parameter lists and nine outputs up to three levels deep, two forged words or cuts |
| `AbiInPlaceParams` | is every parameter decoded from where its pointer points (expected violation) | the same messages, undamaged |
| `AbiImport` | is the listed ABI what the router answers to, are returns encoded as listed, is each revert listed once, do imported wrappers reach their arms | two elementary types, one of them dynamic; structs of both at file level and in the interface, an enum; 118 files: of up to two functions, so overloads and both name forms occur, with a function or a type of a library or of the file level before or after the interface's, with a constructor of the interface, of another contract or of both, one with two interfaces and one whose declarations collide; and no file; any three of 56 items, so two methods beside a constructor, receive, fallback or event, in every order |
| `Extrinsics` | are reports true, refusals final, estimates and nonces good, and does every command end | two commands in eight pairings, every kind among them; one block of others, one fork, one fault, in any order |

Deadlock is checked except where the program really stops: an allocator whose heap and calls are exhausted, a builder
that panicked on too many methods, a build that is rejected or imported, a test that has failed or whose contract is terminated, a message that is decoded, and
commands that are done.

`Nested` is checked under a `VIEW` that leaves out `last`, the record of the last call and its answer. No action reads
it and every action writes all of it, so states that differ in nothing else have the same successors; the refinement is a
property of steps, and TLC evaluates it on every step it generates, also to a state it has seen.

Fairness. Only `Extrinsics` has liveness. `EveryCommandEnds` assumes weak fairness of each command's next turn, because
the async runtime polls a task that can go on, and of the inclusion of each transaction that stays ready, because a node
builds blocks from its pool. Nothing else is fair: nobody must start a command, no fork, finality, foreign block or fault
need happen. The watch loop has no timeout and the transactions no era, so the property excepts a transaction whose nonce
is above one that nobody has: `Gapped` is the exact condition, and without it TLC shows a command that waits for ever. No
other run assumes fairness: a contract call is a terminating sequential program started by the outside, and that a
message is sent is nobody's obligation.

Every property of a passing run has a mutant: a plausible mistake in one mapped definition, kept beside it with a
name `Definition_Mistake`, under which TLC finds the property violated.

### Disagreements between text and code

- A cursor to a leaf element carries no lifetime: kept across a `pop` it writes past the end, and `grow` then does not
  append a zero element, contrary to its doc comment. The other runs assume that a cursor is dropped, which the borrow
  checker enforces for the guards of composite elements only.
- A method parameter that is a dynamic tuple, an array of a dynamic type or a derived dynamic struct is decoded at its
  head, in place, where the ABI and this repository's own encoder put a pointer. `AbiInPlaceParams` shows it;
  `ReadsBack` leaves such parameters out. Outputs of these types are decoded correctly and are covered.

The runs behind these two findings are `StorageVecStaleCursor` and `AbiInPlaceParams`. The others met while modelling
are carved out of the passing properties where they bite, each named here with its place:

- `terminate` diverges past `return_value` (`pvm-contract-types/src/host.rs:581`), so a guarded body that ends with it
  leaves the lock set until the transaction ends, where `reentrancy.rs:14` says that the lock must be released when a
  guarded call exits. `LockOwned` and `OnlyOwnerUnlocks` speak of the accounts that do not terminate; the exclusion
  properties hold for all.
- Implemented functions are collected by name (`pvm-contract-macros/src/codegen/contract.rs:1231`): one method satisfies
  every overload of a .sol file, and the others are listed and unanswered. `AbiIsTheRouter` and `WrappersReachArms` leave
  overloads out. Likewise the builder lists the functions of every library and contract and of the file level
  (`cargo-pvm-contract-builder/src/abi.rs:539`), while the macro matches and requires those of the one interface
  (`codegen/contract.rs:1067` and `:1219`): the others are listed and, unless a method happens to answer, unanswered.
  `AbiIsTheRouter`, `PlainReturnsEncodeAsListed` and the first two conjuncts of `WrappersReachArms` are about the
  interface's functions (`InterfaceEntries`); a file with others beside them is built and imported in the run like any
  other. An overload's wrapper is named after its selector (`abi_import/ctxt.rs:115`), where the example at
  `pvm-contract-macros/src/lib.rs:1376` numbers it.
- The return assertion is emitted only when both sides return something (`codegen/contract.rs:1154`), and compares
  canonical names, which a dynamic struct and a list of values share although their encodings differ; a `Result` of a
  tuple is listed as one tuple without a file and returned as several values (`:526`). `PlainReturnsEncodeAsListed` is
  about all other returns.
- With a .sol file the reentrancy guard's error, and a framework error whose name the file uses, are not in the ABI
  (`cargo-pvm-contract-builder/src/abi.rs:511`); `RevertsListedOnce` is about contracts without one.
- The builder lists a .sol file's constructor (`abi.rs:676`) and `abi_import!` expands it, from the JSON or, when the
  interface has it, from the file (`abi_import/mod.rs:433`); the macro compares it with no Rust constructor
  (`codegen/contract.rs:964`), so its wrapper may send what the contract does not take. `WrappersReachArms` requires that an
  imported constructor is the contract's only where there is no file; with one, that it is laid out right where the two agree.
- The error type of a signature is the second argument of a type spelt `Result` (`codegen/contract.rs:434`). What an alias
  with one argument hides is collected nowhere, though `specs/abi.md:433` says that error types are included in the ABI.
  `RevertsListedOnce` leaves out an error that items raise only behind such aliases (`OnlyBehindAlias`); one that another
  item shows must be listed.
- A failed call's error keeps no data: decoded after another host call it decodes that call's return data
  (`pvm-contract-core/src/call.rs:75`). `ErrorsAreTheirs` is about errors decoded before.
- The mock has one answer per callee and one for instantiations, fixed while a method runs
  (`pvm-contract-types/src/mock_host.rs:238` and `:1085`, `:239` and `:928`), so a method that calls one callee twice and is
  answered differently on chain does not run in the mock as it would there. `MockShowsTheChain` compares the two up to the
  first answer that was not configured.
- Events are matched with the file by name only (`codegen/contract.rs:1261`), and the check that all impl blocks target
  one struct does not look at receive handlers (`:867`). `Interface` models both; no property depends on either.
- A dynamic struct that a listed function returns alone is imported from JSON as a tuple and decoded without its pointer
  (`abi_import/mod.rs:222`); `WrappersReachArms` leaves it out.

Two statements of the docs hold in a narrower form, which is what the passing runs check. `try_get` documents that it
never reverts; over a corrupt length and elements of several slots the overflow check of the slot index does, and
`TryReadsOnlyOverflow` says that nothing else does. A router documents that an unmatched selector is unhandled; a hoisted
payable guard refuses it first when the message carries value, so the refinement of `Endpoint` is checked and proved for
chains in which only the last link hoists its guard.

## 4. Proofs

`RuntimeProofs`, on the guard: for any accounts, values, depth and fuel. The invariant `SafeInv` strengthens `MutualExclusion`,
`SectionIsolated` and `ViewSeesNoOpenSection` by what rollback needs: the flag of a frame is up exactly while a guarded
body runs (`FlagTracksBody`); the key of an open section is set, in storage and in every snapshot a frame above it
may restore (`OpenSectionLocked`); and those snapshots hold the data the section last saw
(`RollbackKeepsSection`). Without the snapshot conjuncts a revert of a nested frame could undo the lock of the section
below it, and the invariant would not be inductive. The proof treats a step as one of three shapes (a frame is edited,
pushed or popped) and each action as an instance of a shape. `OwnedInv` adds that the set keys of lasting accounts have
owners, in storage and in the snapshots, from which `LockOwned` and the step property `OnlyOwnerUnlocks` follow.

`RuntimeProofs`, on the allocator: for any heap size, base, word size and layouts that satisfy the assumption. The invariant is: every
region lies below the offset, is aligned, and no byte at or above the offset was written. Arithmetic lemmas on
remainders carry the alignment argument; no wrap of `usize` is possible below the checked limit.

`RuntimeProofs`, on the fields: for any slot width, field types, pins, raw keys and number of fields. `PlacementInv` strengthens
`FieldsDisjoint` by where the chain stands: every field it placed ends at or before `next_slot`, and in that slot at or
above the `next_space` free bytes (`Behind`); and by the shapes of fields: one of several slots, and a pinned one, has no
byte to spare, and one that is not of the chain ends its slot (`Shapes`). A field of the chain is then clear of its
predecessors by `Behind`, a pinned one by the pairwise check, and one at a raw key by its region (`PlacePlacement`,
`PinPlacement`, `RawPlacement`). `RecordInv` adds that the chain is ordered as declared (`Ordered`), that between two of
its fields stand a neighbour of the one and a neighbour of the other (`ChainHasNeighbours`, which raw fields declared in
between do not disturb), and that a sealed field's bytes agree (`Uniform`). From these follows the key lemma,
`AloneIsAlone`: the alone flag compares a field to its two neighbours in the chain only, and that is enough for no field
anywhere to share a slot with it, so the write that skips the read loses nothing. `FieldsAreARecord` is then proved step
by step.

`StorageVecProofs`: for any element types, words, index space and corrupt lengths. `BaseInv`, which holds for every
caller, keeps the numbers in their ranges, and says that a malformed length has no cursor and that a reader of the try
family panics only for an element of several slots; from it follow `TryReadsOnlyOverflow` and, step by step,
`MalformedLengthIsInert`. `ZeroPastEnd` and the refinement are theorems under `~OwnedCursors`: a cursor is dropped before
the next operation, as in the run; `StorageVecStaleCursor` shows that neither holds otherwise. `VecInv` says that slots
which only the vector's operations wrote `Hold` an array, and so does the storage a panic would go back to: the length is
in range, the last element has a slot index, so that all have, and every lane past it is zero. It also says that the
cursor's element is in the array and the iterator keeps to it. Three facts about placement carry the proof: no two elements
share a lane (`ElementsApart`), a write changes its own element only, also when it takes the whole slot (`WrittenElement`,
whose condition `MayOverwrite` is what the two `alone` flags of `elem_mut` and `elem_clear` establish), and a write inside the array, or one that zeroes its last element, leaves the
rest zero (`WrittenZero`). `PushHolds` to `ClearHolds` then give the new array of each operation, and `StepSeq` maps every
step to the sequence's.

`DispatchProofs`: for any set of selectors and programs of the assumed form. The invariant ties each program point to
what has been established there (which links were passed over, which handler is chosen, which checks were passed).
`MacroIsAnEndpoint` shows step by step that each action is a step of `Endpoint` or leaves it unchanged. For the builder
`DslInv` says that its table is what was asked for, entry by entry with the payable bit, that of equal selectors there is
a first one, and that the routing loop has passed no match; so the handler it runs is the endpoint's
(`BuilderIsAnEndpoint`). `FatesAreTheSame` compares the two: `PairInv` says that the builder's first registration of each
selector is the macro's handler with its payability, that a message goes to the same handler of both (`Twins`), and that
neither can answer it in a way the other will not. It needs the invariants of both sides, because each decides at a
different point: the macro after its guards, the builder after its search.

`CallsProofs`: for any values, words, answers, buffer and number of operations. `CallsInv` strengthens the three
properties of calls by what the host remembers: until the next host call, a revert's data is the return data
(`ReturnDataInv`), which is why an error decodes to its own call's revert; a raw call that succeeded on a mock that follows the
chain has left it the chain's return data, which a later extraction reads. `HostInv` carries what the properties of the mock
need: its entries are answers it can be configured with (`HostTypes`), the chain's key is set only under a guarded method,
between methods its storage is what it committed (`ChainInv`), and a snapshot taken of a mock that was the chain still is
(`SnapshotInv`). `HostsAgree` is about the hosts of an operation whose run goes on as on chain: the configured answer
fails exactly when the callee does, and is the callee's where it succeeds. The other hosts' runs part, and an operation
is stated once for the set of hosts it ends on (`EndsKeeps`). That `extract_output` sees the callee's data in a buffer used
before follows from the answer and from the length it is cut to (`Extracted`).

`ExtrinsicsProofs`: for any commands and plans, any number of foreign blocks, forks and faults. `ClientInv` strengthens
the properties by what the node's side knows of a command: one that has not submitted is in no pool, no block and no
stream (`UnsentInv`); a transaction is in the chain once, in a block it ran in, and does not wait (`ChainInv`); a mapped
state has a successful `map_account` no later (`MappedInv`); and an event in a stream is true, where a refusal may stand
behind an inclusion (`StreamInv`). `NonceInv` is about a command that meets no other: its nonce stays the next one
because each transaction in the pool is watched by a running command or was lost track of.

`InterfaceProofs`: for any .sol files, items, their order and number. `IInv` strengthens `AbiIsTheRouter` by what holds
in the middle of a build: every method agrees with a function of the interface, in name, mutability and the parameters the macro
can see, and the assertions about those it cannot see are among `sigAsserts`; every implemented name has a method; once
parsed, no name the interface declares is missing; once built, both sides of each assertion are equal. That the declared function an
arm was matched with is the one listed under its selector then needs that macro and builder expand a declaration alike
(`OneExpansion`, which is where `DeclsAssumption` is used: an enum or value type stands for one elementary type), and
that every type named in a signature is declared (`FromFileOk`). `SourceInv` adds what each list entry was made of: a
method of an item, whose return assertions were emitted, an error type of an item, and for each item with a new spelling
the error collected. `ImportInv` says of which source the wrappers are. `ImportsReachArms` then goes from a wrapper to the
entry of the interface it was made of, to the arm by `AbiIsTheRouter`, and compares the types each has on the wire. An
import from the file resolves paths among the interface's and the file's own declarations, the macro and the builder among
all; `NarrowName` says that a path which leads somewhere leads both to one declaration. A constructor's wrapper goes the same
way without an arm (`ConstructorSends`).

`AbiCodecProofs`: for any word, address space, types nested to any depth, values, numbers forged and damage. The invariant
is `Arrives`: what arrives is what was sent, unless it was damaged; it has room below the end of the address space for the
heads of any type; the size check was passed before a parameter is read; and nothing has strayed.

- `NothingStrays`. Every sum of offsets is one that `checked_sum` refuses, or stays below the address space because a
  static type's heads are added to an offset that a checked sum or the input's length bounds (`TailStays`, by depth:
  `HeadsBelowStay` for static parts, `VecStays` for a length the sender chose, `PointedFieldsStay` for a composite with
  a pointer, whose decoding fails when an earlier head is past the end). The reads without checks stay inside because
  the size check counts the heads of all parameters (`UncheckedStays`, `ParamStays`).
- `SentIsStandard`. `encode_body_len` is the number of bytes `encode_body_to` writes, for every type (`AllMeasured`), so
  each tail lies where the pointer computed in advance says (`EncodeFieldsFacts`), and that is what the standard's
  definition computes from the bytes in front of it (`EncAllSame`, `EncIsEncodeBody`).
- `SentReadsBack`. An input that holds a value's body at an offset is decoded to that value there (`TailReadsBack`,
  `UncheckedReadsBack`, from `FieldsReadBack` for one level); a parameter's head is at the offset the decoder has counted
  to (`ParamsReadBack`). `ReadsInOrder` adds to the property that nothing is decoded before its turn, and is inductive under
  `Arrives`.

The recursion over types needs what the provers have no theorem for: that functions which call themselves on the parts of
a type exist. Each is shown to exist for the types up to a depth, by induction on the depth, and to depend on its values at
smaller types only (`ValuesRuns`, `BodyLenRuns`, `EncodeBodyRuns`, `EncRuns`, `UncheckedRuns`, `TailRuns`); its equation then
holds for every type (`ValuesUnfold` and the like), and `TypesByDepth` is induction over `Types`. What is assumed:
`TypesAssumption`, that each type is built by one of Rust's constructors from types of the set, that a Vec's element takes
a word at least (all that the traits are implemented for do, except arrays of length zero and unit values, which Solidity does
not have), and that a message has as many types as its direction asks for; `MemoryAssumption`, that a message and the
heads of one type fit in the address space, which 2^64 bytes are for any memory.

`NestedProofs`: for any set of types nested to any depth, any keys of mappings, strings and static values that fit the last byte of
a slot, slots of any width, and vectors of up to 255 elements (bound). Everything is about paths: a value has a key and a
place, the slots from its key on and all that is derived from them (`Covers`).

- Places. `PartCovers` and `PartsApart` are about one step: the place of a part is inside that of the whole, and two
  parts, be they fields with their offsets (`FieldsApart`), elements with their stride (`StridesGrow`) or entries, have no
  slot in common. Along paths, `PlacesApart`: values of which none is a part of the other share no slot; so no slot has
  two owners (`OneOwner`).
- Leaves. `TextWrites` and `RecordWrites`: a write touches its place only, frees the chunks the former string had and the new
  one does not need, and reads back. `HeaderFacts` and `ChunkFacts` are the arithmetic of headers and chunks.
- `NothingLeaks`. The invariant `IInv` adds to `NothingLeftBehind` that the stored keys are keys of slots that are not zero,
  and that no vector is longer than its bound. A step is one of few shapes: a leaf is written, what a path holds is
  cleared, a length is set. `ClearTidy` is the heart: `clear` goes by the stored lengths and not by what is stored, and
  still misses nothing the path holds, because what is past a length is not alive and so was left by nobody
  (`ClearReaches`); what lies behind a mapping stays and stays alive (`AliveBeyond`). A vector is shortened only after its
  last element was cleared (`ShrinkTidy`). Without `NothingLeftBehind` in the invariant the next property would fail:
  a vector that grows would meet the remains of what it had.
- `NestIsATree`. Under the same invariant each operation has on the tree the effect that `Tree` says (`ClearTree`,
  `WriteTree`, `LengthTree` for the shapes of a step, `PushTree`, `PopTree` and so on for the operations, `StepTree` for all).

TLC found no violation of `IInv` on the instance of the run `Nested` before it was proved; no run repeats that, since
the theorem says more. The loops of the model (`SlotsOf`, `ShapeAt`, `Paths`, `KeyAt`, `Written`) are shown to exist as
functions and to take one turn after another (`SlotsUnfold` and the like). `ShapeAssumption` says what a type is: built of types of the set, with the slots its trait
computes; `NestedAssumption` gives the range of values and lengths.

Induction. The theorems of the library that take a predicate as a parameter cannot be instantiated by the provers, but
those that take a set can: `LeastNatural`, from the well-foundedness of `<`, and `NaturalsBySet`, which follows from it,
are induction for the set of numbers that have a property. With them `UnseenLoopRuns` and `FlattenLoopRuns` show that the
loops over lists exist as functions and compute step by step, and `RevertsAreListed` that the loop over the error
signatures keeps each once.

What the constants are assumed to be, and why: the parser gives lists and one of the kinds of types `SolType` and
`RustType` name; a file has finitely many interfaces, its functions may stand anywhere in it, and several returns are elementary (`FilesAssumption`); one spelling of an error is one type in a module,
as rustc resolves it (`ItemsAssumption`); a word is none of the marks the model uses for "nothing decoded"
(`CallsAssumption`). The others are those the modules always had. TLC evaluates all of them on the instances of the runs.

What the proofs corrected. Two properties that TLC had found no violation of within its bounds did not follow, and state
less now. Two methods may have one selector, since the macro compares names and not selectors; the second arm is never reached and both
are listed, so `PlainReturnsEncodeAsListed` is about methods whose selector is listed once (`ListedOnce`). And a wrapper that
is overloaded and takes a tuple the generated `(T)` misspells may compute the selector of another overload, so its returns may be
another arm's: the second conjunct of `WrappersReachArms` leaves it out.

Type correctness is proved in `RuntimeProofs` (for the guard, the allocator and the fields), `DispatchProofs` (for the macro's
code and for the builder) and `ExtrinsicsProofs`, for every value of the constants; of these only the builder's and the client's are also
checked by a run. The others carry their types in their invariants.

Only model-checked: `EveryCommandEnds` is
liveness under fairness, which is out of its reach. `GrowAppendsZero` is violated with kept cursors and follows from
`VecIsASequence` without.

## 5. What is not modelled

- The read-only queries of the client (balance, info, account, raw rpc) and the dry run of `map_account`, which change
  nothing and decide nothing later.
- The environment of the mock host (block number, caller, value, balances) with its setters, and the calls, events and
  transfers it records for assertions: none of it feeds back into what the contract does.
- `limits` and `value` of a call, which are handed to the host unread; the byte layout of a precompile's input.
- The bytes of each primitive type inside its word or slot, range checks of bool and enums, UTF-8, indexed topics: data
  conversions that decide nothing about other values, and that the repository covers with proptests against alloy.
- Of the code generators: parsing, the tokens of events, enums and interface ids, the text of the JSON files, the layout
  JSON, which is output for tools; of the import, generics and the events it skips.
- The command line tool's build and scaffold commands, and the builder's runs of cargo and the linker: child processes
  and files.
- Benchmarks, end-to-end tests and the comparison with solc are not part of the program; the sdk crate re-exports.

## 6. Plan

1. Leaves in `Nested` that share a slot, as `StorageVec` and `Fields` have them, so that one theorem covers all of storage.
2. The transcoding commands of the command line tool, if they come to decide more than text.
