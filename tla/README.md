# wssh in TLA+

Specifications of *wssh* (SSH tunnelled through WebSockets): the daemon
`wsshd` and the client `wssh`, as they are in `src/`. Every action was written
from the Go code; `PROJECT.json` ("map") gives the lines each definition stands
for. This file says what the parts of the system are, which module describes
which of them, what the model checker and the prover establish, and what is
left out.

## 1. The system

A client dials `ws(s)://host/...`, runs SSH over the WebSocket, and opens
session channels. The daemon upgrades the request, authenticates by public key
and starts one process per session.

| part | code | state | operations | works with |
|---|---|---|---|---|
| admission and shutdown | `server/server.go` `WebSocketHandler`, `serveConn`, `Wait`, `WaitTimeout`; end of `cmd/wsshd/main.go` | `handshakeSem`, the wait group, handshake deadline of each connection, where `main` is | upgrade, handshake, release, serve, drain | rate limiter (call), net/http (callback, `Shutdown`), sessions (goroutines it starts) |
| session channels | `server/session.go` `handleSession`, `startProcess`, `reap` | size, PTY or pipe, child, `childrenSem`, three goroutines for each session | pty-req, window-change, shell, exec, teardown, reap | x/crypto/ssh (requests, EOF, close), the kernel |
| connection and its sessions | channel loop of `serveConn` | `sessionCount`, who owns a session | accept, reject, end | both of the above |
| rate limiter | `transport/ratelimit.go` | bounded map of entries, sweep goroutine | `Allow`, `evictLocked`, `sweep` | x/time/rate, the HTTP handlers that share it |
| client IP | `server/clientip.go` | none | headers against trusted proxies | the rate limiter, whose key it is |
| authentication | `server/auth.go`, `perms_unix.go`, `proc_unix.go` | the account looked up, the file opened; files and accounts of the machine | path and permission checks, key lookup, credentials of the child | the file system, x/crypto/ssh (asks for each key) |
| start of the daemon | `cmd/wsshd/main.go` | flags, environment, configuration | flags, daemonize, load, merge, validate, listen, serve | service manager, other daemons |
| configuration | `config/config.go` | none | `Load`, `Merge`, `Validate` | `main` |
| host key of the daemon | `server/keys.go` | one file | load or create | other daemons through the file |
| transport and keepalive | `transport/transport.go`, `client/client.go` `Connect` | WebSocket, `done`, failure counter, SSH mux and its keepalive | dial, ping, close | the network |
| interactive client | `client/client.go` `RunShell`, `RunCommand`, `cmd/wssh/main.go` | terminal mode, signal channel, session | raw mode, resize, signals, deferred calls, exit | the kernel, the session, two goroutines of one process |
| exit status | `exit_*.go`, `mapWaitError`, `ExitCode` | none | conversions | session, client |
| window sizes | `clampWinsize` of `server/session.go` | none | conversion | session, client |
| host key verification | `client/hostkey.go` | `known_hosts`, the snapshot a run took of it | read, compare, ask, append | other runs through the file |
| target and `TERM` parsing, child environment, Windows | see `PROJECT.json` | | | |

What is hard, and what has to hold:

* **Admission.** The slot of a handshake is taken in one goroutine and given
  back in another, on four paths; a deadline fires at any moment; the drain
  waits on a counter that other goroutines raise. Correct: each slot comes back
  once, whatever the peer does; an established connection is not cut by the
  handshake's deadline; the drain neither misses a counted connection nor
  sleeps for ever; a signalled daemon exits.
* **Sessions.** The handler's teardown and `reap` close and kill the same
  things in either order; the client closes, the child exits, a descendant
  keeps the pipe, a resize comes early or late. Correct: one child at most, in
  one slot, reaped; no output after the status; PTY of the size last accepted;
  nothing left behind; a lost session ends; an exit is reported.
* **Rate limiter.** What is forgotten changes what is answered, and whom a
  request is charged to depends on headers that others have written. Correct:
  the map is bounded; a request takes a token of the one who made it; only a
  key that enough others have asked after can tell that its entry was dropped.
* **Authentication.** Files are checked by path and then opened, while users
  edit and replace them; the answer for a key is given before the client signs
  and used after; the account is used later still. Correct: whoever is let in
  was permitted by files that were safe; whoever is in order gets in before the
  tries run out; a child never runs as somebody else.
* **Start.** The daemon starts itself again with one more argument; the host
  key is made in place, without a lock, by any number of daemons that crash
  at any point. Correct: clients see one host key; a start comes to an end;
  settings follow the documented precedence.
* **Client.** Two goroutines end the same process and write to one session;
  signals are dropped by a full channel; an exit status passes through five
  conversions. Correct: the terminal is restored, the last size arrives and is
  usable, the process ends, and its exit code means what happened.
* **Keepalive.** Correct: a blip is spared, a dead server is given up in every
  phase, no goroutine outlives its connection.
* **Known hosts.** Several runs check then append. Correct: what was accepted
  is recorded; no run that knew a key adds another.

`PROJECT.json` "hazards" lists these places one by one with the properties that
watch them.

## 2. The modules

| module | models |
|---|---|
| `Semaphore` | what a buffered channel used as counting semaphore promises; abstract specification of `handshakeSem` and `childrenSem` |
| `Admission` | the life of a connection from `Accept` to `wg.Done`, `main` and `WaitTimeout`. `pc[c]` is the point the handler of `c` has reached; one action for each call or branch between two points at which another goroutine can interfere |
| `Session` | `handleSession` (`hpc`), `reap` (`rpc`), the two `io.Copy` goroutines (`copier`, `stdinCopier`), the child and its descendants. Output is counted in chunks: `made` = `sent` + `buffered`, and what is still in `buffered` when the copier is done is lost |
| `Wsshd` | `Admission` and `Session` joined by the channel loop: `owner`, `sessionCount`, the loss of a connection, the exit of the process |
| `TokenBucket` | a bucket per key that is never forgotten, except after `Crowd` other keys asked; abstract specification of `RateLimiter` |
| `RateLimiter` | `Allow` with its eviction, the sweep in two steps (cutoff, then mutex), the ticker that drops ticks. Time in ticks, tokens as integers: a request costs `Cost`, a tick brings `Refill` |
| `ClientIP` | `clientIP` as an operator on a request, a record of the peer's address and three headers, of which `X-Forwarded-For` is a sequence of lines |
| `UpgradeLimit` | `RateLimiter` with the keys that `ClientIP` gives to requests: each arrives from a sender, directly or through trusted proxies, with headers as these and the sender have written them |
| `Auth` | one connection from the client's first key to its first child. `pc` is where the callback is; one action for each call on the file system, between which files, directories and accounts change |
| `Config` | `Merge` and `Validate` as operators; a partial configuration is a function on the fields that are set |
| `Startup` | `main` up to `hs.Serve` (`pc[d]`), with `daemonize` and `LoadOrGenerateHostKey` in the steps at which a crash leaves a different file. A key is the number of the start that made it |
| `Shell` | `main` of the client, `RunShell` or `RunCommand` (`mpc`), the signal goroutine (`hpc`), the runtime's signal delivery, the deferred calls in order, and the exit code |
| `WinSize` | `clampWinsize`: from 32-bit sides through the clamp to the 16 bits of the kernel |
| `ExitStatus` | `parseExitStatus`, the report of `reap`, `Session.Wait`, `mapWaitError`, `ExitCode` and `os.Exit` as operators from the end of a command to an exit code |
| `ClientConn` | `Connect` (`cpc`), the ping keepalive (`kpc`), the SSH keepalive (`spc`) and `client.Wait` (`wpc`) on a path that stalls or breaks |
| `KnownHosts` | runs of `HostKeyCallback` and `appendKnownHost` on one file; `base[r]` is the snapshot of run `r` |
| `MC*` | constants for the model checker |
| `AdmissionProofs`, `SessionProofs`, `WsshdProofs`, `AuthProofs`, `StartupProofs`, `ShellProofs` | theorems about the module of that name |
| `UpgradeLimitProofs` | theorems about `RateLimiter`, `ClientIP` and `UpgradeLimit` |
| `ClientProofs` | theorems about `KnownHosts` and `ClientConn`, whose definitions have names of their own (`ConnInit`, `ConnNext`) so that one module can extend both |

`Admission`, `Session` and `Wsshd` are layered: the first two are complete
specifications with an environment that may do anything their partner can do
(in `Session` a channel may be lost at any time), and `Wsshd` instantiates both
and restricts when their steps happen. The same `Semaphore` is implemented by
each. `UpgradeLimit` extends `RateLimiter` and `ClientIP`, `Startup` extends
`Config`, and `Shell` extends `WinSize` and `ExitStatus`: pure functions are
checked where a process uses them, on what it gives them.

Names ending in `_Something` are mutants: a definition changed in the way of a
plausible bug. For every property of a passing run one mutant is listed in
`PROJECT.json` that violates it under the same configuration.

### Correspondence, where it is not obvious

* *A blocking operation is a guard.* `<-s.handshakeSem` on an empty channel
  would block, hence `handshakeSem > 0`; that this guard is never false at that
  point is `SlotAccounting`.
* *The wait group* is its counter and the goroutine in `Wait`, which is woken
  by the `Done` that brings the counter to zero and returns later. An `Add` in
  between is what the Go runtime answers with "WaitGroup is reused before
  previous Wait has returned"; this is `WaiterPanics`.
* *net/http* is modelled by what the handler relies on: `Shutdown` waits for
  requests being handled and no longer for hijacked connections. `Connect` to
  `HeaderTimesOut` are its part.
* *A deadline that fires* breaks the WebSocket for good, as the `NetConn` of
  coder/websocket does.
* *Requests of a channel* are a queue for the handler. `start` is shell and
  exec, which share their code; `malformed` is whatever is answered with a
  failure. `Send` is possible until our close was answered.
* *The end of a channel loop* comes when the mux closes the Go channel that the
  loop ranges over. That it has closed the session channels before is promised
  by x/crypto and assumed in `MuxIsClosed`, an external definition; no code of
  the repository makes it so.
* *A PTY* is held open by the daemon on both ends, so that its copier ends only
  when `reap` or the teardown closes it; a pipe is at its end once neither the
  child nor a descendant holds it. `cmd.Wait` includes the copier for a pipe
  (`copyWait`).
* *Sizes* are what `clampWinsize` returned in `Session`; in `Shell` they are
  the terminal's own, and `remote` is what `clampWinsize` makes of them.
* *A file* in `Auth` is an inode with what it lists and the verdict of
  `checkInfoPerms`; `path` says which one has the name. A daemon without root
  serves its own user only.
* *A host key file* in `Startup` is absent, torn, or a key; `dirty` marks what
  the kernel has not written to the disk, which a power loss may take. A daemon
  writes through the descriptor it opened: if an operator removes the torn file
  in between (`Remove`), the daemon is in `unlinked` and what it writes changes
  no file (`Write`).
* *The parent and the child of `daemonize`* are one process slot, since the
  parent exits as soon as the child runs; `env` is the variable that tells them
  apart.
* *Proxies* in `UpgradeLimit` note the address they were called from in
  `X-Forwarded-For`, in either of the ways HTTP has: each may join the lines
  that came into one list and append to it, or add a line of its own, in any
  mixture along a path (`Arrives`: `j` is the last one that joins). `HeaderGet`
  is `Header.Get` of net/http, which returns the first line only. The outermost
  proxy sets the headers with a single address or removes them: `X-Real-IP` and
  `CF-Connecting-IP` are taken from a trusted peer as they are, so that behind
  a proxy that passes them through `ChargedIsSender` would not hold.
* *A sender of "forged"* is the history's name for a request in which a line
  the client made up stays in front of those of the proxies (`LineInFront`).
  The code reads that line, and `ChargedIsSender` excepts it; see section 6.
* *History variables* (`asked`, `fresh`, `outcomes`, `damaged`, `decision`,
  `sender`, `known`, `raced`, `lost`, `homeWas`, `dirWas`, `uids`) are written
  only for the properties and read by no guard.

## 3. The model-checking runs

All passing runs check deadlock; a model that may stop has a step that stutters
in the states in which it really has ended.

**Admission** (57,492 states). Three clients, two slots, so that one client is
refused while two are in their handshake, and a slot passes on from one to the
next; clients come back. Nothing here depends on more than two clients holding
and one waiting. `SetDeadline` succeeds (`ArmOutcomes`): if it fails the code
only logs it, and `SlotEventuallyFreed` is indeed false for a silent peer; the
theorems about safety hold for either outcome. Shows slot accounting, no lost
wake-up, that no served connection has a handshake deadline left which would
cut it later, a drain that is reported complete only when no counted connection
is left, that `handshakeSem` implements `Semaphore`, and three liveness
properties: a slot comes back, a lost connection is cleaned up, a signalled
daemon exits.

**Session** (333,709 states). One session, every kind of request (`Kinds`), two
sizes, at most two requests queued (`MaxQueued`: one being handled and one that
overtakes nothing), at most two chunks of output (`MaxOut`: one delivered, one
in flight), and a command that may leave a background process. Two queued
requests give every pair of adjacent requests, which is all that the handler's
state lets interact. Shows status after output on a pipe, nothing left behind,
size of the PTY, slot accounting, one child at most in the life of a session
(`OneChild`: the one slot would not show a second child that follows the end of
the first), that a lost session ends and an exit is reported. The last two
except a descendant that keeps the pipe for ever; see section 6.

**Wsshd** (1,766,795 states). One client that connects, is lost, and connects
again, two sessions, one child, one session per connection, start requests
only: the second session is opened while handler and reaper of the first are
still at work, and competes with them for the slot. Shows that
`sessionCount`, which starts from 0 again, never falls behind the open
channels, that `childrenSem` implements `Semaphore`, and that a drain which is
found complete leaves no channel open, although the wait group knows nothing of
sessions.

**WsshdLost** (593,235 states). One connection and one session with pty-req
and start requests, a chunk of output, and a command that may leave a
background process (`MayFork`): when the connection is lost the handler ends in
any case, and the child is killed and reaped and the reaper ends unless a
background process holds the pipe of the command for ever. That exception is
part of `LostConnEndsSessions`, since no code ends such a process; where it
does exit, the reaper must end as well. Sessions do not wait for each other, so
that one is enough; two would be too many states for a liveness check.

**UpgradeLimit** (398,311 states, up to symmetry). Four senders, two clients
and two proxies that also ask for themselves; paths of up to two proxies
(`MaxHops`), each of which extends the line or adds its own, and lists of up to
two entries that a client made up (`MaxOwn`); room for two entries, a burst of
two, a rate of three requests in two ticks, six ticks with an idle time of two:
two sweeps that find entries to drop, and evictions with and without idle
entries. The clients are alike, and so are the proxies, hence the symmetry; no
liveness is checked with it. Shows the bound, that a request is charged to its
sender whatever path it took, but for a line of the client's that stays in
front, and that the limiter implements `TokenBucket`: an entry that was
forgotten too early would be a bucket filled too early. The rate fills a bucket
within the idle time (`Refill * TTL >= Burst * Cost`); see section 6 for when
it does not.

**Shell** (162,530 states). A terminal of 24 by 132 and one with a side of 0
and one of 65535; commands that end with 0, 3, 255 or 256 (a code only a
Windows server can report, of which the exit keeps 8 bits), by a signal, or
unknown; any number of resizes and signals. Shows that an ordinary exit
restores the terminal whichever goroutine makes it, that resizes faster than
they are sent settle at the terminal's size (or, where a `window-change`
overtook the `pty-req`, at the size measured for that one), that no program is
given a terminal without rows or columns, that the exit code is truthful, and
that the client ends with its session.

**ClientConn** (1,371 states). The limit of failures is the code's, three; the
number of blips, pings and stalls is unbounded. Shows that fewer failures in a
row than the limit do not end a connection, that a server which stays out of
reach is given up in every phase, and that no goroutine outlives its
connection.

**KnownHosts** (31,936 states). Three runs (one that appends, one under way,
one later), two keys, any number of changes of the host's key, entries cut
short at any point. Shows that an accepted key is in the file unless an entry
was damaged, and that a key is added only by a run that knew none.

**Startup** (296,104 states). Two daemons that may race, three starts (two that
race and one that reads what is left), two key files, and five launches: in the
background, with an argument that hides the appended `-D`, in the foreground
with TLS, with a file that a flag completes, contradicts or leaves incomplete,
and with a file that cannot be read. Crashes, full disks, power losses and
the removal of a torn file at every point. Shows that clients see one key of a
file and that a daemon serves the key in it, the documented precedence, and
that a start ends. The first two except a path once two first starts have met
on it or its file was removed under the daemon that was writing it (`raced`).

**Auth** (1,516,853 states). A client with any of three keys, files that list
none, the second or the third; two tries, so that a key is offered in time or
too late; two changes of files, directories or accounts, which is what it takes
to replace a file between two checks and put it back. Shows that whoever is let
in was authorized, that whoever is in order is let in, and that a child has a
uid of the authenticated user.

**Runs that must fail.** `SessionInputEnd` and `ClientConnBound` check a
sentence of the repository's documentation that the code does not keep;
section 6.

### Fairness

* Weak fairness of each goroutine's steps, because the Go scheduler runs every
  goroutine that can run; in `Admission` and `Wsshd` also of timers (handshake
  deadline, drain timeout, read-header timeout).
* None for peers, users, signals, children or the network. `Session` has a
  stronger `ReadingSpec` that adds a client which keeps reading, because
  without it output never drains; `ExitReported` needs it and the other
  properties hold without.
* In `ClientConn`, timers of the dial and of both keepalives, and that a failed
  read is noticed; not that the server answers anything.
* In `Shell`, `WF(Main)` and `WF(Handler)`, the two goroutines; `WF(Main)`
  includes that a call on the session returns.
* In `Startup`, `WF(Main(d))`: the process that was started is run. Crashes,
  power losses and operators have none.
* No strong fairness anywhere.

## 4. The theorems

`tlapm` proves them for every value of the constants that satisfies the named
assumptions of the modules: finite sets of clients, sessions and keys, positive
capacities, rates and limits, a default size that is a size, natural bounds,
lengths and codes, Boolean switches, a `NoConn` that is no client, key files
that hold keys and listings of the client's keys, proxies and senders that are
addresses and addresses that are keys of the limiter, terminal sizes with
16-bit sides, and launches that name one of the host key paths. The model
checker evaluates each of them on its instance.

Besides invariants there are *ranks*: for four of the modules a number is
defined that says how many steps a goroutine has left, and it is proved that
each of its steps lowers the number and that nothing raises it but a new start
(`ConnsRunForward`, `SessionsRunDown`, `StartsGetOn`, `RunsForward`). This is
the half of the liveness properties that can be proved here, for every value of
the constants: the goroutines do not go round in circles, whatever fails. That
they are not stuck on the way is left to the runs.

**AdmissionProofs.** `IInv == TypeOK /\ SlotAccounting /\ CountedAccounting` is
inductive. `SlotAccounting` is needed for the type of `handshakeSem` (its range
is a fact about who holds slots), and `CountedAccounting` for `wg \in Nat`.
Each step of a connection is shown to be a move from one phase to another
(`ConnStepMoves`); the change of both counters then follows from whether the
two phases lie in `SlotPhases` and `CountedPhases` (`GotoCounts`,
`GotoAccounts`), so that the cardinality argument is made once. From it:
`TypeCorrect`, `SlotsAccounted`, `ConnsCounted`, `ServingSpared` (with the
auxiliary fact about deadlines proved next to it), `WaiterIsWoken`,
`DrainIsClean`, and `HandshakeSemaphore`: `Admission` implements `Semaphore`.
`ConnectionsRunForward`: on any path through the handler and `serveConn` a
connection has at most eleven steps before it is cleaned up.

**SessionProofs.** `IInv == TypeOK /\ SlotAccounting /\ \A s : Control(s) /\
Output(s)`. `Control` ties the handler to the reaper: a session that is
starting has no reaper, a reaper past its first wait has a reaped child, one
past the copier's end has nothing open. Without it neither "the slot is
released once" nor `NothingLeft` is inductive. `Output` is the conservation of
chunks and that an ended copier of a live channel has left none. From it:
`TypeCorrect`, `SlotsAccounted`, `ProcessesAreCapped` (processes are slot
holders), `NothingIsLeft`, `OutputComesFirst`, `SizesFollow`, `AtMostOneChild`,
`ChildrenSemaphore`. `LostSessionsRunDown`: the handler's rank counts the
requests it still has, so it rises while the client sends; once the channel is
lost it can only fall, and that of the reaper falls from the start of the child
on.

**WsshdProofs.** `ImplementsAdmission` and `ImplementsSession`: each step of
the daemon is a step of one component and leaves the other alone, or leaves
both alone, so that every behaviour of `Wsshd` is one of `Admission` and one of
`Session`. All theorems about the components then hold of the daemon;
`ProcessesAreCapped`, `ChildrenSemaphore` and `HandshakeSemaphoreKept`,
`SessionsKeepPromises` (slots, nothing left, output before status, sizes),
`ConnectionsKeepPromises` (both accounts, deadline, wake-up) and the
components' types are carried over in this way. The join has an invariant of
its own, `Joined == TypeOK /\ ChannelsAreServed /\ CountCoversChannels`: a
connection that starts to serve counts from 0, which covers its channels only
because none is left from the connection before. This is `ChannelsAreServed`,
an auxiliary invariant and no result: it rests on what the mux promises
(`MuxIsClosed`), and on two facts about the code, that only the channel loop
opens a channel and that only `ServeEnds` ends the loop. `DrainIsComplete`
needs both components: a drain that is found complete leaves no channel open
although `WaitTimeout` knows nothing of sessions (`DrainIsClean` of
`Admission`, and `ChannelsAreServed`).

**UpgradeLimitProofs.** Of `RateLimiter`: `IInv == TypeOK /\ MapBounded /\
Times /\ CutoffPast`: an entry's times are those of its key's last request, and
a sweep, late as it may be, has a cutoff that is at least the idle time ago.
From it `MapIsBounded` (an eviction removes an entry before one is added) and
`RefinesTokenBucket`, under the hypothesis `IdleFills` that the rate fills a
bucket within the idle time. The bucket of a key is the level of its entry, or
full. What a step forgets is then either full anyway, because it was idle for
so long (`CutoffPast`, `Times`), or the entry seen least recently, after which
`MaxEntries` other keys have asked. In `RateLimiter` any key may ask next;
`ImplementsLimiter` shows that `UpgradeLimit` with the keys of `ClientIP` is a
`RateLimiter`, which carries both results over (`UpgradesKeepMapBounded`,
`UpgradesRefineTokenBucket`). `SenderIsCharged` is about lists and paths of any
length and about proxies that extend the line or add their own: unless the
client's line stays in front, the first line that arrives is the client's own
list, if it has come that far, then the client, then proxies only
(`FirstLine`, `Arrival`); the last address that is no proxy's is therefore the
client's, whatever it wrote before (`LastUntrusted`), and a proxy that asks for
itself is found as the first of a list of proxies (`FirstProxy`,
`ChargedToSender`). What is read from a line in front is some address of that
line or the peer (`FromTheList`), hence still a key of the limiter
(`UpgradeAsksSender`).

**AuthProofs.** `IInv == Types /\ Remembered /\ Established /\ ChildStarted`.
`Remembered` says that the history covers the present: a directory that is safe
was safe, the account's uid is among `uids`. `Established` says for each phase
what the checks before it have found, which no later change can undo since it
is about the past; `PastStat` is about the opened file, whatever has its name
by then. From it: `AcceptedWereAuthorized`, `ChildrenRunAsUser`.
A second invariant, `Attempts == Tried /\ OnlyUnlistedFailed`, is about the
tries: the failures are the keys tried but for the present one, and as long as
nothing has changed those of a user in order were not listed, since every other
check passes (`Undisturbed`). From it: `AuthorizedAreAdmitted`, for any number
of keys and tries, and `TriesAreBounded`.

**StartupProofs.** `IInv` has the phases' facts (`Started`, `Configured`,
`Secured`) and four about keys: `Alone` (but for a race, a daemon that makes a
key is the only one to do so for that file, and the file holds none),
`Disturbed` (a daemon writes to a file that is gone only where `raced` says
that it was removed), `HasFileKey` (a daemon that has a key has the file's) and
`SeenIsThere` (the file still holds the key that clients have seen, but for a
race or a power loss). The writer of a key destroys none because of `Alone`;
`Alone` is kept because a file that is there, torn or not, is never replaced.
`Disturbed` makes what is written reach the file wherever the path is not
excepted (`WritingTells`). Without the exceptions neither result holds of the
code: see section 6. From it: `FileKeyServed`, `IdentityIsOne`,
`ServedAsConfigured`, the last for every command line and file.
`StartsAreShort`: a start has at most twelve steps; the rank of a daemon that
has yet to daemonize is higher by two, so that it falls although the child
begins with the flags again, and the environment variable is what keeps it from
doing so a second time.

**ShellProofs.** Lemmas about the pure functions come first: `clampWinsize`
turns every size of the kernel's into a usable one (`ClampUsable`), and the
chain of conversions keeps the meaning of every end of a command
(`WaitFaithful`). `IInv` adds to `TypeOK` what each phase has done (`Phased`,
`Measured`), that a raw terminal has a restore ahead in `main`
(`RawIsPending`), that a signal goroutine on its way out was asked
(`TermWasAsked`), `Settling` (an outdated size is followed by a signal in the
channel or a goroutine that has yet to measure: the reason why dropping signals
loses no size; and a size that was overtaken is the one measured for the
`pty-req`, the exception in `ResizesSettle` and in `SizeArrives`), and that the
result of `main` means what was reported (`ResultFaithful`). From it:
`TerminalRestored`, `SizeArrives`, `RemoteAlwaysUsable`, `ExitCodesTruthful`,
`TypeCorrect`. `GoroutinesRunForward`: `main` has at most fifteen steps,
deferred calls included, and the signal goroutine three once it ends the
process; neither delays the other.

**ClientProofs.** Of `KnownHosts`: `IInv == TypeOK /\ Snapshots /\
GarbledIsDamaged /\ AcceptedIsRecorded`: the file only grows, so that what a
run has read stays true (`Snapshots`), also when other runs append between its
reading and its writing. From it: `AcceptedKeysAreRecorded`, the action
properties `OnlyUnawareRunsAdd` and `RecordsAreKept` (no run undoes what
another has recorded), and `ChangedKeysAreRefused`: a run that had read keys of
the host accepts none but these, whatever its user answers.

Of `ClientConn`, for any limit of failed pings: `ConnInv == ConnTypeOK /\
CountsFailures /\ Stages /\ NothingEndsEarly`. `BlipsSpared` speaks of the
moment at which the connection is given up; what makes it inductive is
`CountsFailures`, that the counter is at every moment the number of pings that
have failed in a row: the last `failures` outcomes are failures and the one
before, if it is remembered, is not. `Recorded` says what the history becomes
when it is full and when it is not. From it: `BlipsAreSpared`, its converse
`DeadServerGivenUp`, and `ConnTypeCorrect`. `Stages` says what `Connect` has
built at each point and in which order it comes apart; `GoroutinesEndInOrder`
rests on it: no goroutine ends while what it watches still runs.

The runs check the same formulas on their small instances. Some of the
properties proved are in no run, because what they say follows from others
that are or because they are about ranks: `ConnsCounted`, `ProcessesAreCapped`,
`ChangedKeysAreRefused`, `RecordsAreKept`, `DeadServerGivenUp`,
`GoroutinesEndInOrder`, `TriesAreBounded`, the four ranks, and the types of all
modules but `Admission`.

**Only model-checked:** everything about liveness (the prover has no rules for
fairness and `ENABLED` here), that is `SlotEventuallyFreed`,
`BrokenConnFinishes`, `ShutdownTerminates`, `LostSessionEnds`, `ExitReported`,
`LostConnEndsSessions`, `ClientEnds`, `SilentServerDropped`, `GoroutinesEnd`
and `StartEnds`. Every invariant and every action property of a passing run is
a theorem.

## 5. What is not modelled

* SSH and WebSocket framing, cryptography, logging, formatting of messages.
* The Windows build: job objects, console handling, and the goroutine that
  polls for the size of the console.
* `Close` of the rate limiter (it ends the sweep at the exit of the daemon) and
  a rate of 0, with which `Allow` touches nothing.
* The environment of the child, a constant list; its supplementary groups;
  `lookupShell`, which only reads.
* Parsing of targets and of `TERM`, string handling without state; `-version`.
* The second user of the ping keepalive, `transport.Accept` on the server: it
  is the same goroutine, and its effect on the daemon is `PeerDrops`.
* The names of signals in `exit-signal`: the client maps all of them to 128.

## 6. Where code and documentation disagree

Shown by runs:

* `SessionInputEnd`: the copier of the input ends at the client's EOF and
  closes nothing (`session.go:283`), so that `cat` without PTY never sees the
  end of its input. The design document says that whichever copier finishes
  first kills the child.
* `ClientConnBound`: `ssh.NewClientConn` does not look at
  `ClientConfig.Timeout`; a server that answers pings and never speaks SSH
  holds `Connect` for ever, against `client.go:42`.

Met while modelling and not among the runs; each can be seen from the actions
named:

* Wsshd: `server.go:26` says that "Wait blocks until all active sessions
  close". The wait group counts connections; `handleSession` and `reap` run in
  goroutines it does not know, and the daemon can exit while a command runs.
* Wsshd: `sessionCount` never goes down, so that the cap is on the sessions a
  connection ever opens, not on those it has open (`OpenSession`;
  `server.go:257`).
* Admission: `transport.Accept` hijacks the connection before `wg.Add(1)`, so
  that the drain may be reported complete in between, or `wg.Wait` panics
  (`Upgrade`, `Spawn`, `WaiterPanics`; `server.go:207`).
* Session: on a PTY `reap` closes the PTY before its copier has read the last
  output, which is lost although the client reads (`ReapClose`;
  `session.go:344`). This is why `PipeOutputBeforeStatus` speaks of pipes, and
  the one hazard without a property.
* Session: killing the child does not end a descendant that holds the stdout
  pipe, and the slot stays taken as long as it lives (`Fork`;
  `proc_unix.go:88`).
* UpgradeLimit: `Header.Get` reads the first line of `X-Forwarded-For` and no
  other (`clientip.go:28`). Behind a proxy that adds its own line below the
  client's instead of extending it, the line the client made up is read, and
  its rightmost address that is no proxy's is charged (`Arrives`,
  `LineInFront`, `HeaderGet`), although the plan of that change says "Untrusted
  peers MUST NOT be able to influence their rate-limit key"
  (`docs/superpowers/plans/2026-09-07-wssh-prodreadiness-config.md:18`). This
  is the exception in `ChargedIsSender`.
* RateLimiter: with a rate that does not fill a bucket within a minute (the
  default burst of 5: below one request in twelve seconds) a key that stops for
  a minute gets its burst again (`SweepRuns`; `ratelimit.go:108`). This is the
  hypothesis of `RefinesTokenBucket`.
* Startup: a daemon that found no file truncates it later, although another one
  has made a key there and serves it: two first starts leave one daemon with a
  key that is in no file, against `keys.go:18-19` (`FindNoKey`, `OpenFile`,
  `raced`). The file is not synced, so that a power loss may take a key that
  clients have seen (`PowerLoss`, `lost`). A crash in the write leaves a file
  with which no daemon starts until it is removed (`LoadFails`, `Remove`). If
  it is removed while the daemon that made it is still writing, the key goes to
  a file without a name: that daemon serves a key that no file holds, and the
  next start makes another one (`keys.go:35`; `Remove`, `unlinked`, `Write`).
* Startup: an empty `-trusted-proxies` is the same as none, so that the command
  line cannot clear the list of the file (`CliOverlay`; `main.go:265`).
* ClientConn: the package comment says that a ping goes out "every 15 seconds
  (5 second timeout)" and that "the goroutine exits on ping failure"
  (`transport.go:15-18`; the 15 seconds also at 40 and 59). The code pings
  every 30 seconds, waits 15, and goes on after a failed ping until three have
  failed in a row (`transport.go:32-34`, `124-131`). `BlipsSpared` follows the
  code and the comment at 126.
* Shell: `sigCh` has room for one signal, and the runtime drops what does not
  fit: a SIGTERM behind a SIGWINCH is lost (`client.go:165`), although
  `client.go:145` says that SIGTERM exits the process (`Deliver`).
* Shell: a `window-change` from the signal goroutine can overtake the `pty-req`
  with the older size (`RequestPty`, `WindowChange`); a signal between raw mode
  and `notifySignals`, or after `signal.Stop`, ends the client with the
  terminal raw (`MakeRaw`, `StopSignals`, `Term`); after a SIGTERM `main` may
  exit with 255 before the goroutine exits with 130 (`HandlerCloses`,
  `MainExits`).
* Shell: a command that succeeded is reported as 255 when the client's own
  input or output could not be copied (`WaitErrors`); an exit code of a
  Windows server that is a multiple of 256 becomes success (`OsExit`).
* KnownHosts: a run that read the file before another recorded the host accepts
  a different key and adds it (`Unknown`); an entry appended to a line without
  newline is lost or makes the file unreadable (`WriteEntry`).
* `clampWinsize` returns early when one side is 0 and then truncates the other
  to 16 bits instead of clamping it (`session.go:52-60`). The kernel's sizes
  have 16-bit sides, which is why `RemoteUsable` holds of `wssh` as the client.

## 7. Plan

1. `Admission`, `Session`, `Wsshd`: the daemon's core. Done, with proofs.
2. `Shell`, `ClientConn`, `RateLimiter`, `KnownHosts`: the client and the
   limiter. Done, with proofs.
3. `Startup` with `Config`, `Auth`: what happens before the core runs. Done,
   with proofs.
4. `WinSize`, `ExitStatus`, `ClientIP`: pure functions in the processes that
   use them. Done, with lemmas about each.
5. Left: a rank for the client's connection, whose keepalives go on for as long
   as it lives; larger instances of `Wsshd` (two connections that compete for a
   child's slot are covered by the theorems alone); a rate of 0 and `Close` of
   the limiter; the Windows build.
