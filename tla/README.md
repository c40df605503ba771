# A verification project for verifyTrusty

verifyTrusty puts programs of the Trusty operating system (the storage and
keymaster services) under the SeaHorn model checker. The kernel is replaced by a
small C model of Trusty's IPC: a table of handles and the system calls on it,
with the choices of the environment left open. The server code of the
applications, the callbacks they are given and a `main` for each verification
job complete a program.

This directory holds TLA+ models of that program, the configurations that check
them with TLC, and proofs checked by TLAPS. Paths below are relative to `src/`;
`LIB` is `seahorn/trusty/user/base/lib/libc-trusty`, `LIBPTR` its sibling
`libc-trusty-ptr`, and `ipc.c` is `trusty_mod/trusty/user/app/storage/ipc.c`.

## 1. Inventory

### Components

| Component | State it keeps | Operations | What makes it correct |
|---|---|---|---|
| Handle table, integers (`LIB/sea_handle_table.c`) | for each handle: `active`, `cookie`, path or message; two counters | `sea_ht_new_port`, `sea_ht_new_channel`, `sea_ht_free`, cookies, messages, queries | counters equal the numbers of active handles; allocation gives a free handle; an operation on one handle leaves the others |
| System calls, integers (`LIB/trusty_syscalls_impl.c`) | none of their own | `port_create`, `connect`, `accept`, `close`, `set_cookie`, `wait`, `wait_any`, `get_msg`, `read_msg`, `put_msg`, `send_msg` | a failed call changes nothing; a retired message is gone; `accept` tells the truth about the peer |
| Proof programs (`LIB/proof/*/main.c`) | handles they hold | one system call each, with assertions | their assertions and comments |
| Handle table and system calls, pointers (`LIBPTR/*`) | `malloc`'d handles; the handle the harness named for `wait_any` | the same | as above; the named handle is active when `wait_any` returns it |
| Storage IPC server (`ipc.c`) | list of channel contexts per port, `msg_buf`, `msg_buf_size` | `ipc_port_create`, `ipc_loop`, `dispatch_event`, `handle_port`, `handle_channel`, `ipc_port_destroy`, `sync_ipc_send_msg` | handles, cookies, contexts and lists stay in step through every failure; each handle closed once; no message overruns the buffer; what is taken for a response is a new message |
| Storage helpers and harnesses (`seahorn/storage/`) | one context per port | `on_connect`, `on_disconnect`, `on_handle_msg`; `main` | the assertions of the harnesses |
| Keymaster IPC server (`seahorn/keymaster/jobs/ipc/`) | one context per channel, two ports; the device's record of its configuration | `keymaster_ipc_init`, `dispatch_event`, port and channel handlers, the dispatch of commands, `send_response` | contexts freed with their channels; a command runs only when the device's configuration allows it; a long response arrives in chunks, the last one marked |
| Gatekeeper harness (`seahorn/gatekeeper/jobs/ipc/harness.cpp`) | none | a main loop | its handlers are not in this repository |
| Library stubs (`seahorn/trusty_common/`) | none | `realloc`, `new`, nondeterministic values | `realloc` keeps the old block on failure |
| verify script (`verify.py.in`) | none | runs SeaHorn, classifies its output | the exit code says what the output says |
| User headers (`trusty_mod/.../include/user`) | none | constants, types | — |
| Build, container and CI files | none | configuration | — |

### How they interact

The server calls the system calls; the system calls read and update the table;
the table draws the environment's choices (an event, a message, an error). The
link back from an event to the server's data is the *cookie*: the server stores
the address of a context with `set_cookie`, and `dispatch_event` takes the
cookie of the event to be such an address. The context's `on_connect`,
`on_disconnect` and `on_handle_msg` are callbacks of the application. Nothing is
persistent and nothing runs in parallel: a program is one thread.

### The hard behaviours

Not threads, but *sequences*: any handle may have any event at any time; handles
and context addresses are used again after they were released; most calls may
fail, and the error paths must undo exactly what was done; an event may ask for
two things at once (a message and a hang-up); a program may leave its loop with
clients still connected. The list, with the line of each, is `hazards` in
`PROJECT.json`.

### Two builds

`HANDLE_TYPE_IS_PTR` (`CMakeLists.txt:35`, default off) chooses the table. Off,
the jobs link the integer table with Trusty's own `ipc.c`, which is not part of
this repository; on, they link the pointer table with the repository's `ipc.c`.
By the comment in `seahorn/storage/jobs/ipc/port_create_destroy/CMakeLists.txt:1-4`
the two `ipc.c` differ in the type of handles. `StorageIpc` composes the text of
the repository's `ipc.c` with the integer table: the composition of the default
build, and the one in which handles are used again. What the servers may rely on
in either build is `TrustyIpc`, which both builds are shown to implement.

## 2. Modules

| Module | Extends | Models |
|---|---|---|
| `TrustyIpc` | — | the abstract specification: open ports and channels, their cookies, and which have a message |
| `SeaHandleTable` | — | every function of `LIB/sea_handle_table.c`, as an operator from a table (a record) to a value or to the new table |
| `TrustySyscalls` | `SeaHandleTable` | the system calls: an operator whose value is the set of the results a call may have (`rc`, the table `tab`, out-parameters) |
| `TrustyClient` | `TrustySyscalls`, instance of `TrustyIpc` | a program that makes system calls in any order, one action per call |
| `PtrHandleTable` | — | every function of `LIBPTR/sea_handle_table.c`, in the same form |
| `PtrSyscalls` | `PtrHandleTable` | the system calls of the pointer build |
| `PtrClient` | `PtrSyscalls`, instance of `TrustyIpc` | the program that makes them in any order |
| `ProofPrograms` | `TrustySyscalls`, instance of `PtrSyscalls` | the 22 programs under `LIB/proof` and `LIBPTR/proof` |
| `SyncIpc` | `TrustySyscalls` | `sync_ipc_send_msg` of `ipc.c` and the four functions it calls, as one operator |
| `StorageIpc` | `SyncIpc` | `ipc.c` with the helpers and a harness, over the integer table |
| `KeymasterIpc` | `TrustySyscalls` | `keymaster_ipc.cpp`: init, the loop and its handlers, over the integer table |
| `KeymasterCommands` | — | `keymaster_ipc.cpp`: which command reaches the device, and how its response is sent |
| `VerifyScript` | — | `verify.py.in`: the classification of the output and the exit code |
| `MC*` | the module it is named for | constants for TLC |
| `SeaHandleTableProofs` | the table | lemmas: types, effects on flags and counters |
| `TrustySyscallsProofs` | the system calls | lemmas: what a call may do to the table |
| `TrustyClientProofs`, `PtrClientProofs`, `StorageIpcProofs`, `KeymasterIpcProofs`, `KeymasterCommandsProofs`, `ProofProgramsProofs` | the components | the theorems of section 5 |

The tables and calls are operators and not actions, so that a handler that makes
several calls (as `do_connect`: `accept`, `on_connect`, `set_cookie`, `close`)
is one action with every outcome of every call in it.

**The table.** `PHANDLE(X, fld)` and `CHANDLE(X, fld)` are globals named by
handle; here they are fields of a record, functions of the handle, and `active`
is the set of handles whose flag is set. The scans return the first of a set.
The counters are unsigned words and wrap as they do in C (`WORD`). A message is
its identifier and its length. `sea_ht_free` looks at nothing and resets only
the flag, and so does the model.

**The calls.** Errors other than the ones a caller distinguishes are one value,
`ERR_GENERIC`. `read_msg` returns, besides its value, the number of bytes it
stores in each buffer. `trusty_wait` on a handle and `wait_any` on one the table
chooses share `EventOn`. A read of the peer in `accept` that the code leaves
arbitrary is a choice. `handle_set_create`, `handle_set_ctrl` and `dup` touch no
state and are left out.

**The pointer table.** A handle is an address that `malloc` gave, so the table is
a record of functions of the addresses. Nothing is freed: an address that was
closed stays allocated, a new handle is always a new address, and the model ends
up with none left, as with `malloc` that fails. `g_on_waitany_handle` and
`g_on_connect_handle` are the handles that the program has named: `wait_any`
reports the first, and `connect` compares with the second.

**The clients.** `TrustyClient` keeps the discipline of the proof programs: it
uses the handles it was given, closes each once (or closes the invalid handle,
as `proof/port_close` does), and reads with identifiers that messages have.
`owned`, `flags`, `retired` and `last` are what the program knows; the
properties compare them with the table. `PtrClient` keeps the same discipline and
names handles so that the assertions of the table hold. The refinement mappings
(`Ipc` in both) take the active handles for the open ones, their cookies, and
those whose message has an identifier other than 0 for those with a message.

**The proof programs.** A program is a sequence of calls, assumptions and
assertions over its variables; `ProofPrograms` runs one of them, instruction by
instruction, over the table of its build. `sassert` records whether it holds, and
so do the assertions inside the tables that a call would trip.

**The storage server.** `up`, `live` are the port and channel contexts that exist,
`portHandle`, `chanHandle` their `common.handle`, `channels` the list of each
port as a set (its order is never used), `readers` the channel contexts with an
`on_handle_msg`, `ev` the event between `wait_any` and the end of its handler,
`mode` the place in `main`, `destroying` the port whose `ipc_port_destroy` is at
work, `msgHigh` a history of what was written to `msg_buf`.

| Action | Code |
|---|---|
| `ipc_port_create` | the function, with `port_create`, `set_cookie`, `maybe_grow_msg_buf` and both error labels |
| `StartLoop`, `WaitAny`, `WaitAnyFails` | `ipc_loop` |
| `DispatchNone` | `dispatch_event` when no bit is set |
| `handle_port_errors`, `do_connect` | `handle_port`: the abort on a bit a port never has; the whole of `do_connect` |
| `handle_chan_errors`, `handle_channel` | `handle_channel`: message, then hang-up or error, `do_disconnect` at most once |
| `ipc_port_destroy`, `DestroyChannel`, `DestroyReturns` | the close of the port, one pass of its `while`, its end |
| `Exit`, `Terminated` | the return of `main`; a stutter after it or after an abort |

The clients of the ports in `SyncPort` are served by `sync_ipc_msg_handler` of
`seahorn/storage/lib/sea_ipc_helper.c`, which sends a request on the channel the
event came from and waits there for the response, within `handle_channel`.
`SyncIpc` gives the outcomes of that call: whether it sent, which event ended
each wait, which message `get_msg` found, and how the response was read and
retired.

**The keymaster server.** `port_secure` and `port_non_secure` are the fields of
`keymaster_srv_ctx`, `live` the contexts that were allocated and not deleted, with
`chan`, `uuid` and `dispatch` their fields, `ev` and `mode` as above. The history
`abandoned` names the live contexts that no event reaches any more, and `client`
the peer that is connected to each open channel.

| Action | Code |
|---|---|
| `keymaster_ipc_init` | the function, both ports with every failure, and the return of `main` on an error |
| `WaitAny`, `WaitAnyFails` | the loop of `main` |
| `DispatchNoHandler` | `dispatch_event` without a bit or without a cookie |
| `handle_port_errors`, `keymaster_port_handler` | the abort on a bit a port never has; `accept`, the test of the peer, `new`, `set_cookie`, and each way back out |
| `keymaster_chan_handler` | `ChannelError` for the early close, `ChannelMessage` for the message and then the hang-up |

**Keymaster's commands.** `KeymasterCommands` starts where `handle_msg` has read
a command. The end of `handle_msg` (`keymaster_ipc.cpp:633-650`), which calls
`ctx->dispatch` and `send_response` or `send_error_response`, is a comment in
this revision; `HandleMsg` composes these functions, which are there in full, as
the comment says. `configure_error` is the device's record, `configured` and
`ran` are histories of what ran on it; `pc`, `stop`, `out_buf_size`,
`bytes_remaining` are the state of `send_response`, `received` the messages on
the channel, each with the part of the response it carries (`from`, `len`).

| Action | Code |
|---|---|
| `HandleMsg` | `keymaster_dispatch_secure` or `_non_secure`, `do_dispatch` with its ways out, and the start of `send_response` |
| `Send` | one pass of the loop of `send_response`: `send_msg`, and its errors |
| `Wait` | `wait_to_send` with each event, and the rest of the pass |

**The verify script.** `ReadLine` is one pass of the loop over the lines of
SeaHorn's output, with the three checks a line goes through; `Return` is the
computation of the exit code, `Exec` the way without `--expect`.

## 3. Runs

| Run | Checks | Result |
|---|---|---|
| `trusty_client` | `TypeOK`, `CountersExact`, `OwnedIsActive`, `ParityIsFlags`, `RetiredUnreadable`, `FreshHandles`, `OthersKept`, `ImplementsTrustyIpc` | hold, about 136,000 states |
| `ptr_client` | `TypeOK`, `ImplementsTrustyIpc` | hold, about 197,000 states |
| `proof_programs` | `AssertionsHold` | holds, about 49,000 states |
| `storage_ipc` | `TypeOK`, `HandlesMatchContexts`, `ListsHoldLive`, `DispatchSound`, `MsgFitsBuffer`, `ClosedOnce`, `CreateDestroy`, `SyncAssertion`, `ResponseIsNew`, `Isolation` | hold, about 2,311,000 states |
| `storage_ipc_live` | `TeardownCompletes` | holds, about 349,000 states |
| `keymaster_ipc` | `TypeOK`, `ContextsAccounted`, `DispatchSound`, `ClosedOnce`, `PortsServed`, `SecureIsGatekeeper`, `GoneIsClosed`, `Isolation` | hold, about 3,345,000 states |
| `keymaster_commands` | `TypeOK`, `DeviceLifecycle`, `StopEndsResponse`, `SentMeansEnded`, `ResponseEnds` | hold, 12,870 states |
| `trusty_client_peer` | `NonSecurePeerIsZeros` | violated |
| `trusty_client_stored` | `ReadReportsStored` | violated |
| `trusty_client_cookie` | `FreshHandleHasNoCookie` | violated |
| `ptr_client_choose` | `AnyActiveHandleChosen` | violated |
| `verify_script` | `ErrorIsNot0` | violated |

The violated statements are comments and assertions of the repository that the
code does not keep; `findings` in `PROJECT.json` quotes them. In words:

- a port open only to the non-secure world gets an odd handle, and `accept`
  reports an arbitrary peer on odd handles where the comment promises zeros;
- `read_msg` into two buffers that the message fills writes the second part over
  the first buffer;
- a handle that is allocated again still has the cookie of its last owner. This
  does not harm the server, which sets a cookie on every handle before it waits:
  `DispatchSound` holds;
- in the pointer build `wait_any` reports the one handle that the program has
  named, where the comment says that an active handle is chosen. A harness that
  names its port verifies no event of a channel;
- without `--vac` a failed assertion in SeaHorn's output does not keep the script
  from returning 0, "all ok".

`ImplementsTrustyIpc` is refinement: every step of either client is a step of
`TrustyIpc` or leaves its variables alone. It is what the servers' models may
take for granted in both builds. The abstract specification leaves open what the
builds do differently: the cookie of a fresh handle (the old one, or `NULL`) and
whether there is a message before the first wait (the pointer build writes an
arbitrary one into a new handle, the integer build keeps the one that the closed
handle had).

`ResponseIsNew` is about the two waits of `sync_ipc_send_msg`: neither looks at
which event ended it, and `get_msg` is called in any case. What keeps the request
from being taken for its own response is that `do_handle_msg` retired it; where
that `put_msg` failed, it is taken, and the property says that this is the only
way. `SyncAssertion` is the assertion of the handler, over every such path.

`StopEndsResponse` says of the bytes what a client relies on: the parts that the
messages carry join up from the first byte of the response to its last.

`DeviceLifecycle` counts from the moment that Configure ran on the device, also
when its response could not be serialized and the client was told of an error:
`do_dispatch` notes the device's error before it serializes. `StopEndsResponse`
and `SentMeansEnded` except responses of which `wait_to_send` passed over a chunk:
it returns `NO_ERROR` without having sent on an event that has none of the three
bits it looks at (`keymaster_ipc.cpp:110-138`), and the client then gets a
response with a hole. No doc of the repository says what the function promises.
`ResponseEnds` counts these responses too. A chunk that does not fit although the
channel said that there is room ends the response with an error; a loop that tried
it again would go round for ever with a peer that never takes it.

`keymaster_ipc` holds of a server that loses contexts. An `ERROR` or `READY`
event closes the channel and leaves its context allocated, and, where
`INVALID_IPC_HANDLE` is not negative, an `accept` that failed leads to a context
without a channel. No doc or test of the repository says that contexts are
freed, so this is no finding; `ContextsAccounted` says that contexts are lost in
these two ways and no other, and `DispatchSound` that a lost context is never
dispatched to, also when its channel's handle is used again.

**Bounds.** Ports 1–2 and channels 16–17 are the table of the source, complete
and not a reduction of it. `WORD` is 32: more than the handles, and small enough
that a counter that goes below zero shows. No action has a bound in its guard.

- *Integer client.* One cookie, and in the safety run the paths `""` and `NULL`:
  `connect` finds a port by the first character of its path, and none of the
  properties depends on which character it is; the runs that look for a violation
  have another path. Messages of length 2, read into a buffer of 1 byte and two of
  1 and 2, so that a message does not fit, or ends in the second buffer.
- *Pointer client.* Three addresses: a port and two channels, or two ports and a
  channel, are in use when `malloc` fails. An address is given out once, so an
  execution opens three handles. Addresses are a symmetry.
- *Proof programs.* The handles of the source, five addresses (no program opens
  more handles), and messages of 0, 64, 65, 4096 and 4097 bytes: empty, as long as
  the programs' buffers, one byte longer. The programs end, so a state without a
  step is no deadlock there.
- *Storage.* Two ports, of the two kinds, with buffers of 2 and 3 and
  `MSG_BUF_MAX_SIZE` 2, and message lengths from 0 to 3: empty, shorter, as large
  as allowed, too large. Clients of the second port are served by
  `sync_ipc_msg_handler`; its waits report each of the three events that
  `wait_to_send` looks at, or none of them. Three channel contexts, one more
  than there are channels, so that an address that was freed is used again while
  others live; their permutations are a symmetry. The liveness run uses no
  symmetry, two contexts, one length and two events of the inner waits.
- *Keymaster server.* Three contexts for two channels, so that one may be lost
  with both channels in use, and messages of lengths 1 and 2, shorter than a header
  (`HEADER` is 2) and as long as one.
- *Keymaster commands.* The sizes of the source (4096, of which a chunk leaves 64
  free) and responses of 0, 4, 4031, 4032, 4033, 4096, 8064 and 8065 bytes: none,
  and around one and two chunks. Every command of the source, and two numbers that
  are none, one of which has the STOP bit.
- *verify script.* Two places for vacuity checks and exit codes 0–3 of the tool.

**Deadlock** is checked except of the proof programs and the script, which end: a
server that returned or aborted takes `Terminated`, and a client can always call
`port_create`.

**Fairness** (`FairSpec`) is weak, and only of steps in which nothing blocks.

- *Storage*: of the teardown. `close` and `on_disconnect` return, and `main` goes on
  to destroy every port. `wait_any` may block for ever, the caller may stay in its
  set-up and the loop need never end; and a handler need not end either, since
  `sync_ipc_send_msg` waits without a time limit for a peer that may never answer
  (`ipc.c:246,264`). So nothing is assumed of the loop or of any handler, and
  `TeardownCompletes` starts where the loop was left.
- *Keymaster commands*: of `Send`, since `send_msg` returns
  `ERR_NOT_ENOUGH_BUFFER` and does not block. `Wait` blocks and may do so for ever:
  `ResponseEnds` is that this is the one way in which `send_response` does not end.

## 4. Abstractions, and why they lose nothing the properties see

- A path is its first character: `sea_ht_math_port` compares no more.
- A message has no content. `on_handle_msg` echoes it and decides nothing by it.
  The memory of buffers is not modelled, only their lengths.
- The response of `sync_ipc_msg_handler` comes from the environment: `wait` may
  bring any message, and `send_msg` may fail or be blocked.
- In `KeymasterCommands` a command is its name; a request deserializes or does
  not, a response has any size of a set, and the device (`TrustyKeymaster`, which
  is not in the repository) returns success or an error and keeps what
  `set_configure_error` is given. `KM_DESTROY_ATTESTATION_IDS` has no case in the
  switch, and so no dispatch in the model.
- The library that the proof programs of the pointer build are linked with does
  not let `malloc` fail (`CAN_RETURN_INVALID_IPC_HANDLE` is 0); `PtrClient` does.
- `set_cookie` may fail in the servers. The C model of the call always
  succeeds, so that the error paths after it are dead in the verification
  jobs; the API lets it fail and the servers are written for that.
- In `KeymasterIpc` the peer of a connection is the kernel's choice, the
  gatekeeper or another. This allows more than the C model of `accept`, which
  reports zeros on the secure port's even handle, so that no secure context
  would ever be opened.
- The fields of a deleted keymaster context go back to their initial values:
  nothing reads them.
- The server's callbacks: `on_connect` may return `NULL` (its `malloc` may fail),
  or a context with or without an `on_handle_msg`.
- The harness has several ports where each of the repository's has one, and
  `ipc_loop` runs without a bound where `stubs/ipc_loop_override.c` unrolls it
  twice.
- A handler is one step, with the waits that `sync_ipc_send_msg` has inside it.
  Nothing else runs meanwhile, so no property of a state sees the difference; a
  handler whose wait does not end is one whose step is not taken.
- Event bits that `dispatch_event` does not know do nothing: they are `{}`.
- `abort` and failed assertions of the handlers (`handle_port_errors`) are the
  mode `aborted`, in which the properties of the teardown claim nothing.

## 5. Proofs

Each theorem holds for every value of the constants that satisfies the named
assumptions, so for tables of any size and any number of ports and contexts:

- `HandleRanges`: ports, then channels, both ranges not empty
  (`sea_handle_table.h` fixes them to 1–2 and 16–17).
- `InvalidIsNoHandle`: `INVALID_IPC_HANDLE` is a number below the ports. Trusty's
  headers define it and are not in this repository; the runs take 0.
- `WordHoldsTable`: a counter can count every handle. Without it `++` wraps.
- `NullIsNoCookie`, `ClientConstants`, `PtrConstants`, `PtrClientConstants`,
  `Contexts`, `ServerConstants`: types of the constants; port and channel contexts
  have different addresses; a buffer list has one or two buffers of some length
  (`trusty_read_msg` knows no other).
- `TwoPorts`: the table has two ports, so one of each parity (the source has two),
  or `INVALID_IPC_HANDLE` is negative. The scan for a port returns that value when
  it finds none, and `keymaster_ipc_init` takes it for a handle unless it is
  negative: with room for one port and 0 for the invalid handle, the server would
  enter its loop with one port, and `PortsServed` would not hold.
- `SourceHandles`, of the proof programs alone: ports 1–2 and channels 16–17, which
  the programs assert. `ProgramData`: messages have identifiers other than 0, there
  are two paths (`proof/port_connect` uses two) and a cookie, and `NULL` is no
  address. The number of addresses is left open; a `malloc` without one left has no
  result, as the library of the pointer programs is built.
- `BufferHoldsMessages`: every port is created with a `max_buffer_size` of at
  least `MSG_BUF_MAX_SIZE`. This is a real precondition of `do_handle_msg`, which
  compares a length with the constant and not with the size of the buffer. The
  harnesses pass `STORAGE_MAX_BUFFER_SIZE`, which Trusty's headers define.

| Theorems | Module |
|---|---|
| `Invariance`, `ClientTypeOK`, `ClientCountersExact`, `ClientOwnedIsActive`, `ClientParityIsFlags`, `ClientRetiredUnreadable`, `ClientFreshHandles`, `ClientOthersKept`, `ClientImplementsTrustyIpc` | `TrustyClientProofs` |
| `PtrTypeOK`, `PtrOwnsActive`, `PtrImplementsTrustyIpc` | `PtrClientProofs` |
| `Invariance`, `StorageTypeOK`, `StorageHandlesMatchContexts`, `StorageListsHoldLive`, `StorageDispatchSound`, `StorageMsgFitsBuffer`, `StorageClosedOnce`, `StorageCreateDestroy`, `StorageSyncAssertion`, `StorageResponseIsNew`, `StorageIsolation`, `StorageNothingLeft`, `StorageTeardownEnds` | `StorageIpcProofs` |
| `KeymasterTypeOK`, `KeymasterContextsAccounted`, `KeymasterDispatchSound`, `KeymasterClosedOnce`, `KeymasterPortsServed`, `KeymasterSecureIsGatekeeper`, `KeymasterGoneIsClosed`, `KeymasterIsolation` | `KeymasterIpcProofs` |
| `Invariance`, `CommandsTypeOK`, `CommandsDeviceLifecycle`, `CommandsStopEndsResponse`, `CommandsSentMeansEnded`, `CommandsResponseShrinks` | `KeymasterCommandsProofs` |
| `Invariance`, `ProgramsAssertionsHold` | `ProofProgramsProofs` |

**The client's invariant** is the conjunction of the properties with
`RetiredHasNoMsg`: a channel whose message was retired has the identifier 0 in
the table. `RetiredUnreadable` speaks of the last call only and is not inductive;
that conjunct is what makes the next read fail. `CountersExact` needs
`OwnedIsActive`: `sea_ht_free` takes a counter below zero when the handle is not
active, and only the client's knowing its handles rules that out. The counting
itself is in `SeaHandleTableProofs` (`NewPortCounts`, `NewChannelCounts`,
`FreeCounts`), from the library's facts about `Cardinality`.

**The refinement.** `ClientImplementsTrustyIpc` and `PtrImplementsTrustyIpc` have
one lemma per action of the client: under the mapping, and given the invariant,
the step is the abstract action of the same name, or leaves the mapped variables
alone (`PortCreateMapped`, `WaitMapped`, `ReadMsgMapped`, ...; `NameMapped` is the
stutter of the pointer program that only names a handle for `wait_any` or
`connect`). What has to be shown each time is that the call may not do more than
its contract: that a failed call changes no handle, that an opened handle was not
open, that an event is of an open handle and carries its cookie, that a message
is gained by a wait alone and lost by a `put_msg` that succeeded. The integer
build needs all of its invariant for it. The pointer build needs `OwnsActive`
only: the program's handles are the active ones, so that a scan of the flags and
the program's own knowledge agree; that no closed address comes back is what
`malloc` without `free` gives.

**The storage server's invariant** joins the safety properties with four facts:
`EventSound` (the fetched event, whatever its bits, is of a context that exists:
`DispatchSound` is its part for events that are dispatched), `DestroyingIsDown`,
`DownIsClosed` (a context that is down names no open handle) and `BufferIsLarge`
(the buffer holds the largest message as soon as a port is up, which, with
`AfterGetMsg`'s check, bounds what is written). `ClosedOnce` follows from
`PortsMatch` and `ChannelsMatch`: each handle closed is that of a live context,
hence active. The proof has one lemma per action (`PortCreateStep`,
`ConnectStep`, `ChannelStep`, ...), and under them the shapes that several share:
a port opened or closed, a channel opened or closed, a step that changes no
handle. `StorageIsolation` is an action property and follows from the invariant:
distinct live contexts have distinct handles.

`StorageSyncAssertion` and `StorageResponseIsNew` speak of the outcome of one
handler, so they are about `sync_ipc_send_msg` over every table the invariant
allows. The first needs that a read which succeeds returns the length that
`get_msg` reported (`ReadFills`), which `read_response` has compared with what the
caller expects. The second follows the identifier from the request on: `put_msg`
resets it, a wait that reports no message does not bring it back (`NothingArrives`,
`NothingSent`), and `get_msg` fails on it (`NoResponse`); where that `put_msg`
failed the property claims nothing.

`StorageNothingLeft` and `StorageTeardownEnds` are what `TeardownCompletes` says
without fairness. `Remaining` counts two steps for each open port, one for each open
channel and one for an `ipc_port_destroy` that has yet to return; each step of a
teardown lowers it by one, nothing is opened meanwhile, `main` returns at 0, and
then every handle is closed and every context freed.

**The keymaster server's invariant** joins `ContextsAccounted`, `PortsServed`,
`ClosedOnce` and the types with three facts. `EventIsCurrent`: between `wait_any`
and its handler the event's handle is open and its cookie is the table's, so that
a lost context is never found. `ClientsKnown`: every context in use has the peer
of its channel, at all times and not only when an event finds it, and a secure one
the gatekeeper's; this is what `SecureIsGatekeeper` needs when a channel's handle
is used again. `NothingBeforeInit`: `keymaster_ipc_init` starts from an empty
table, which its second `port_create` relies on. Contexts that are lost are
outside of `InUse`, so that counting them is not needed. The proof has one lemma
per action, and for the two handlers one on their outcomes
(`PortHandlerOutcome`, `ChanHandlerOutcome`): nothing moves, one channel and its
context come, or one go (`NothingMoves`, `OneMore`, `OneLess`). `GoneIsClosed` and
`Isolation` are action properties and follow from these outcomes.

**The commands' invariant** has two halves that share no variable. `DeviceLifecycle`
is inductive with `configured = configure_error`: the device's record is what
Configure returned, which is where the order of `do_dispatch` matters. For the
response, `StopInv` says that while there is more to send no message on the
channel has the STOP bit, and the command has it only when the rest fits one
chunk. `JoinInv` says that the messages join up and end at `bytes_sent`, so that
they are the whole response when nothing remains; it is kept, and not computed by
adding up the lengths, because a sum over a sequence would need induction over
data. The assumption `CommandConstants` says that a chunk with its header fits a
message and that an error code fits a chunk, as in the source.
`CommandsResponseShrinks` is the safety half of `ResponseEnds`: every step of a
response ends it or lowers `Left`, a number that counts two for each byte that
remains and one for a send that was not tried. It needs that no chunk is empty while
bytes remain, which is what `MARGIN < KEYMASTER_MAX_BUFFER_LENGTH` gives.

**The proof programs' invariant** is an annotation of each program, as a proof
outline has one before each instruction: `IInv` says, by the program and `pc`, which
handles are open, what the variables hold and what the table records of them. The
programs assert single results; what carries from one call to the next is the part
that had to be found:

- that exactly certain handles are open, so that the next port or channel gets the
  handle the program asserts (`IntCreated`, `IntClosed`, ...);
- that the port has no cookie until `set_cookie`, and that the port is not the
  channel, so that the event of the port tells of the port (`Open`);
- that the identifier `get_msg` gave is not 0 up to the last read, and the channel's
  is 0 after `put_msg`, so that the read of a message that was retired fails
  (`Served`);
- that the handle named to `wait_any` is open and that the one named to `connect`
  has the path: these are the assertions of the pointer build's table.

The eight programs that open and close handles have an annotation and two lemmas
each, that a step keeps it (`IntCreateStep`, ...) and that it implies the next
assertion (`IntCreateHolds`, ...). The other fourteen share theirs: the programs
that serve one connection differ in where they wait and accept (`WaitAt`,
`AcceptAt`) and in the end, and `EveryServingCode` shows that each has the code
`ServingCode` relative to those two places, whatever it asserts of its handles.
Below that are lemmas about the calls (`WaitCall`, `ReadMsgCall`, `IntCreateCall`,
`PtrCreateCall`, ...), one for each call and both builds where they agree. TLC finds
`IInv` true in the states of `proof_programs`.

The run and the theorem are about the same programs. What the theorem adds are the
data: messages of every length (the run has five, around the buffers' sizes), any
identifiers, events, cookies and paths, and any number of addresses for `malloc` to
choose from.

**Only model-checked:** the liveness properties `TeardownCompletes` and
`ResponseEnds`: liveness under fairness, and `ENABLED`, are out of the installed
provers' reach. What is left to TLC is that the steps are taken: that a teardown is
at its end after the steps that remain is `StorageTeardownEnds`, and that a response
cannot go on for ever `CommandsResponseShrinks`. The properties of the runs that are
violated do not hold. Every other property of a run is a theorem.

## 6. Not modelled

`PROJECT.json` lists every component with its status.

- The gatekeeper harness is a loop over handlers of another repository.
- The `realloc` stub and the unchecked results of `malloc` are about memory, which
  these models do not have; the hazards name them.
- `keymaster_ipc_harness.cpp` repeats `handle_msg` with the verifier's own values.
  `KeymasterIpc` and `KeymasterCommands` are not composed: in this revision the
  code does not compose them either.
- `stubs/ipc_loop_override.c` unrolls the loop that `StorageIpc` runs for ever.
- The command line that `verify.py.in` builds, log macros, the SeaHorn options and
  the build files have no state.
- `storage/jobs/ipc/channel_nodes/channel_nodes_harness.c` is not part of the build.

## 7. Plan

The order is that of importance; all of it is done.

1. `SeaHandleTable`, `TrustySyscalls`, with `TrustyClient`: the shared kernel model.
2. `StorageIpc`: the server over it. Safety, then liveness.
3. Proofs about the table and the calls, as lemmas for both clients of them.
4. Proofs of the client's and of the storage server's safety.
5. `KeymasterIpc`: the second server over the calls. Safety.
6. `TrustyIpc`, the abstract specification of the calls, and `PtrHandleTable`,
   `PtrSyscalls`, `PtrClient`, the pointer build. Both builds implement it.
7. `SyncIpc`, composed with `StorageIpc`; `ProofPrograms`, over both builds.
8. `KeymasterCommands`: the commands and the chunks of a response, and its proofs.
9. `VerifyScript`.
10. Proofs: the refinement of `TrustyIpc` by both builds, and `OthersKept`; the
    safety of `KeymasterIpc`; `SyncAssertion` and `ResponseIsNew`; `StopEndsResponse`.
11. Proofs about the proof programs: `AssertionsHold`.

## 8. Running

    tlc -workers 2 -config TrustyClient.cfg MCTrustyClient.tla
    tlc -workers 2 -config PtrClient.cfg MCPtrClient.tla
    tlc -workers 2 -config ProofPrograms.cfg MCProofPrograms.tla
    tlc -workers 2 -config StorageIpc.cfg MCStorageIpc.tla
    tlc -workers 2 -config StorageIpcLive.cfg MCStorageIpc.tla
    tlc -workers 2 -config KeymasterIpc.cfg MCKeymasterIpc.tla
    tlc -workers 2 -config KeymasterCommands.cfg MCKeymasterCommands.tla
    tlapm SeaHandleTableProofs.tla      (and each other module named *Proofs)

`PROJECT.json` names, for each property that holds, a plausible error in the code
(the operators whose comment begins "Mutant") under which TLC finds it violated.
