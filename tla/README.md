# TLA+ models of the p≡p JSON Server Adapter

The JSON Server Adapter is a small HTTP server that gives JSON-RPC clients
access to the p≡p Engine; the repository also has a page from which a user calls
the functions by hand, and a copy of jQuery, which this page is written for (it
asks for `jquery-2.2.0.min.js`, `index.html:23` and `ev_server.cc:303`, which is
not in the repository; what is modelled is `jquery-3.6.1.js`, which is).  This
directory holds TLA+ specifications of them, instances for the model checker
TLC, and proofs for the proof system TLAPS.  Paths are relative to the
repository (`server/` is `src/server/`), line numbers are those of the modelled
commit.

## 1. Inventory

| Component | State | Operations | Talks to | Modelled in |
|---|---|---|---|---|
| Event delivery (`server/json-adapter.cc`, `make_request` of `server/json_rpc.cc`) | `_mtx`; `eventListener`: session id to queue; `request_nr` | `makeAndDeliverRequest`, `pollForEvents2`, `close_session` | Engine threads and connection threads | `EventDelivery` |
| PEP_SESSION registry and config cache (`server/session_registry.cc`, `FuncCache`) | `m`: thread id to session; `cache`; `last_use` | `get`, `add_to_cache`, `update_last_use` | JSON-RPC calls, the Engine | `SessionRegistry`, partly |
| Adapter lifecycle and web server (`server/mini-adapter-main.cc`, `build-windows/pEp/webserver.cc`) | `running`, `_running`; the acceptor; runner and connection threads | `run`, `shutdown`, `runner`, `do_session` | the kernel, HTTP clients | `AdapterLifecycle`, partly |
| JSON-RPC dispatch (`server/json_rpc.cc`, `server/ev_server.cc`, `server/function_map.hh`, `server/context.*`, `server/c_string.hh`) | per call: the lengths stored in `Context`, the outputs | `OnApiRequest`, `call`, `Func::call` and the caching classes | web server above, registry and Engine below | `RpcDispatch`, partly |
| Port search and security token (`prepare_run`, `server/security-token.cc`) | the port; the token; the file `~/.pEp/json-token` | `prepare_run`, `write_security_file`, `verify_security_token` | other servers of the user, clients | `ServerStartup` |
| Daemonising (`server/daemonize_*.cc`) | a pipe between two processes | `daemonize`, `daemonize_commit` | `main` | `ServerStartup` |
| Browser test client (`html/interactive.js`) | the selected function; lists and files of its parameters; the result field | handlers of the form, of file readers and of answers | the server, jQuery | `TestClient`, partly |
| jQuery callback lists (`html/jquery-3.6.1.js:3435-3649`) | list, memory, `firingIndex`, queue | `add`, `remove`, `has`, `empty`, `disable`, `lock`, `fire` | everything below | `JqCallbacks` |
| jQuery deferreds (`3670-4140`) | state, values, `maxDepth` | `then`, `resolve`, `reject`, `when`, `ready`, `holdReady` | callback lists | `JqDeferred`, partly |
| jQuery requests (`9200-9980`, transports `9999-10310`) | per request: `completed`, transport, timer; `jQuery.active`; names of JSONP | `ajax`, `done`, `abort`, the two transports | callback lists, the browser | `JqAjax`, partly |
| jQuery events (`5125-5800`, `8657-8800`) | handlers by element, private data of the detour | `on`, `off`, `one`, `trigger`, `dispatch`, `leverageNative`, `detach`, `remove` | the browser, handlers | `JqEvents`, partly |
| jQuery queues and animations (`4562-4690`, `7304-7986`) | queue `fx`, its hooks, `jQuery.timers`, `fxshow` | `animate`, `delay`, `stop`, `finish`, `promise`, `show`, `hide`, `toggle` | the browser's frames, callbacks | `JqFx`, partly |
| Rest of jQuery; log and crash viewers; Logger; NFC normaliser; Base64; handle registry; C strings and Engine types; json_spirit; hot fix program; tests | mostly none | conversions, access to a page | | no, section 8 |

How they interact: an HTTP connection has a thread, which runs `do_session`,
`OnApiRequest`, `call` and the C function one inside the other, and fetches its
Engine session from the registry on the way.  The Engine calls back from any of
its threads into `makeAndDeliverRequest`; `pollForEvents2` is an ordinary call
which waits on the queue that this fills.  The page calls `$.post`, which is
`jQuery.ajax`, and hangs its handlers to the Deferred that comes back; all
JavaScript runs in one thread, but code of the user is called in the middle of
nearly every operation of jQuery and may call all of them again.

What is hard, and what makes the components correct:

* **Event delivery.**  Deliveries, polls and closes of a session overlap; a poll
  keeps using a queue after it has released the mutex; a close sleeps with the
  mutex held.  Every session must get every event once and in order between its
  first poll and its close; no poller and no delivery may be stuck; a close
  notice goes to a session that is closed.
* **Session registry.**  Sessions belong to threads, configuration belongs to
  clients, and time evicts it.  A client that keeps calling keeps its
  configuration, every new session starts with it, nothing stays for ever.
* **Lifecycle.**  Nobody is told to stop: blocked threads find out by two flags
  that are cleared one after the other.  The process must end when asked to, and
  take little new work until then.
* **Start-up.**  All servers of a user write one token file, in place, and none
  removes it; ports are searched with a 16-bit counter; the foreground process
  must tell failure from success by what comes through a pipe.  Who reads the
  file of a living server must get to it.
* **Dispatch.**  A body may break off, ids are cut to an int, parameters depend
  on each other (a length on the string before it), and caching classes act
  before the parameters are checked.  An answer must fit its request, and what
  is refused must leave no trace.
* **Test client.**  Everything is kept twice, in the script and in the
  document, and answers and file contents come in the middle of an edit.
* **jQuery.**  Re-entrance: a list is changed by what it calls, a request is
  aborted within `ajax()`, a click is triggered within a click, an animation is
  stopped by another one's callback.  Each must come to its end exactly once.

`PROJECT.json` lists the hazards one by one, each at its line, with the
properties that would catch them.

## 2. Modules

| Module | State and actions |
|---|---|
| `EventDelivery` | One action for each critical section or queue operation.  `mtx` is `_mtx`, `listener` is `eventListener`, queues are numbered objects because a poller may hold one that is no longer in the map.  `MakeRequest`, `LockListeners`, `PushBack`, `UnlockListeners` are `makeAndDeliverRequest`; `PollForEvents2` to `Reply` are `pollForEvents`; `CloseSession` to `EraseSession` are `close_session`.  `published`, `from`, `taken` are history |
| `Mailboxes` | Abstract, what clients may rely on: open sessions have a mailbox, a request is put into all of them at one instant, entries come out in order |
| `SessionRegistry` | `GetKnown`, `GetNew`, `GetFails` are the outcomes of `SessionRegistry::get`, each with its `update_last_use`; `CacheCall` is `FuncCache::call` up to `Base::call`; `SizeMismatch` is the check of `Func::call`; `Apply` runs the function outside of the lock.  A session is the record of the values its config functions were called with.  `contact`, `intent` are history |
| `AdapterLifecycle` | `running` and `_running` are the flags; `backlog` is the kernel's listen queue; `place` says where each thread is between two blocking calls.  `StopAdapter` and `StopWebserver` are the two halves of `shutdown`, on whatever thread calls it.  `late`, `lateAccepts` are history |
| `ServerStartup` | `pc` follows a background process through `main` and `prepare_run`: `BindPort` and `NextPort` are the loop, `OpenFile`, `WriteFile` and `CloseFile` write the token, `Commit` sends the status.  `fg`, `pipe`, `status` are the foreground process; on systems other than Windows it exits at once.  The file is a sequence of bytes, each known by its writer.  `Crash` kills a server at any step; clients read the file, connect and are verified in separate steps |
| `RpcDispatch` | `pc` follows a call: parse, the checks in their order, the traces of the caching classes, one parameter after the other (`extract`), the C function, the outputs while the recursion unwinds.  A string is its number of octets, and the number it has when decoded |
| `TestClient` | A text is a sequence of characters; `Drawn` is what an input shows of a text that `genInput` wrote into the page unescaped, `Undefined` what it shows of a value that there is not.  `name`, `form`, `focus`, `resultpre` are what the document shows, `func`, `func_params`, `fileInputs` what the script keeps; `readers` and `calls` are under way in the browser.  One action for each handler |
| `JqCallbacks` | The `stack` has the calls of `fire()` that are under way, each at its place in the two loops; `list`, `memory`, `queue`, `firingIndex`, `firing`, `locked` are the variables of the closure.  `kept`, `last`, `told` are history |
| `Broadcast` | Abstract: values are announced one after the other, and told in the order of registration, each once at most |
| `JqDeferred` | `state`, `value` and the handlers by Deferred; `first` is history: what each thenable in the chain has said first.  `whens` is a call of `when()`, Deferred 1 is the `readyList` |
| `JqAjax` | The `stack` has the calls of `ajax()` and `done()` under way, each at the place where code of the user may run; the other variables are those of a request.  `Settle` is `done()` up to its callbacks; `HandleEvent` is the handler of the transport; `told`, `returned` are the caller's view |
| `Posts` | Abstract, what `$.post` promises: each request has one outcome, and its callbacks are told of it once |
| `HandlerLists` | What both modules about lists of functions do with a sequence: leave items out, join |
| `JqEvents` | `calls` is the stack, with the calls of `trigger()` and `dispatch()` and the browser's own deliveries; `saved` is the private data of `leverageNative`; `log` is history by gesture |
| `JqFx` | `queue` with the sentinel, `timers`, `delays`, `hooks`; the `stack` has the loops of `tick`, `stop` and `finish` with their indexes, and the complete callbacks.  Empty animations (`animate({})`) run at once, but move the queue on.  The style is `"full"` (the inline style, be it `auto` or nothing), the number that this came to (`"fixed"`, by `cur`), on the way, or zero.  `meddled`, `hurried`, `interrupted`, `spoilt` are history |
| `MC...` | instances for TLC |
| `...Proofs` | theorems, section 6 |

Notes on the models:

* A queue operation of `locked_queue` is one step: the class has a lock of its
  own, and is outside of this repository (libpEpAdapter).  `pop_front` of an
  empty queue has no defined result; the model sends the call to the state
  `"undefined"`, from which it does not return.
* `eventListener` may have thread ids as keys, but the function table
  registers only `pollForEvents2`; `connection_close_cb` never finds an entry.
* A security token is drawn at random; the model takes it as unique, so a
  server stands for its token.  The files of two servers may differ in length
  (`WidePort`), and then a mix of them is possible which `FileIsWhole` excepts
  (`SameSize`).  The web server sets `reuse_addr(false)`
  (`webserver.cc:17`), so a port that is bound is refused to others.
* The browser is modelled by what the scripts see of it: events of an
  `XMLHttpRequest` come once and after `send`, or within it if it is
  synchronous; a script whose element was removed may still run; frames
  come as long as one is requested.  Such definitions are marked external or
  are mapped to the lines that depend on them.
* An operator with a suffix such as `...Not`, `...Early` or `...Once`, and the
  comment "mutant of", is a deliberately wrong variant of the definition that
  follows it.  No specification uses it.  It is there to show that a property
  can tell the code from a broken version of it.

## 3. Runs

| Run | Instance | Shows |
|---|---|---|
| `ed_shared` | 2 sessions, 2 callers that both poll and close `s1`, 2 producers, 2 events, 3 queues, 1 pending notice | every event once and in order, notices, numbers, `ImplementsMailboxes` |
| `ed_own` | each session has one poller, `c2` closes the other's session, 1 producer, 2 events | the drain loop never over-reads, replies are consecutive; closes, deliveries and polls end |
| `sr_cache` | 2 thread ids, 3 clients, 1 function with 2 values, timeout 1, clock to 3 | active clients keep their configuration, new sessions get it, silent clients are swept |
| `al` | 3 connections (323,860 states) | `StopsTakingWork`, `ShutdownEnds` |
| `ss_start` | 2 servers, 1 client, ports 1 and 2 of 16-bit numbers cut to 2 bits (796,819 states) | `ReachesTheWriter`, `FileIsWhole`, `StatusIsTruth`, `StartEnds` |
| `rpc` | 8 methods of all 4 classes, up to 3 parameters out of 5 values, all kinds of bodies and ids (109,980 states) | `AnswersItsRequest`, `RefusedChangesNothing`, `ArgumentsFit`, `CachedIsApplied` |
| `client` | 2 functions, 2 files, 2 calls, 2 strings in a list, 2 readers, a text that is drawn as another one (3,573,488 states) | `RequestFits`, `DisplayedIsKept`, `OnlyTheChosen`, `FieldIsTrue` |
| `callbacks` | one list with each of the 16 sets of options, 2 functions, 3 additions, 2 values (70,608 states) | `NoneForgotten`, `Announces` (the refinement of `Broadcast`) |
| `deferred` | 3 Deferreds, one foreign thenable with 2 calls, 1 hold (661,176 states) | `OutcomeIsFirst`, `WhenWaits`, `ChainsEnd` |
| `ajax` | 2 requests, one with a timeout, one synchronous with `beforeSend`, both with global events (321,246 states) | `EventsTakeTurns`, `UnderWay`, `ImplementsPosts`, `OutcomeComes` |
| `events` | a check box in a row, 2 handlers, 2 clicks (6,086,715 states) | `EachIsCalledOnce`, `StateComesFirst`, `NothingLeftBehind` |
| `fx` | 3 animations or delays of 6 kinds, an empty one among them, with durations 0 to 2, 2 calls of `stop` and its like, 3 frames (9,057,437 states) | `SentinelIsTrue`, `OriginalComesBack`, `AnimationsGoOn`, `PromiseIsKept` |

Deadlock is not checked: every model really may stop, because events, calls,
animations or the clock are bounded, or because the process has ended.

**Bounds.**  *Events:* order and loss need two events; three queues are two
sessions, one of which is closed and created again while the old queue is in
use; the code pushes a notice every 333 ms while a poller sleeps, and with a
bound of 1 the push is repeated after the notice was popped.  *Registry:* with a
timeout of 1 and a clock that reaches 3 a client can configure, fall silent, be
evicted and come back; two thread ids give an id that is used again; a third
client lets a call evict one client and spare another.  *Lifecycle:* three
connections are in read, in a call and in the listen queue at once.
*Start-up:* two servers give two writers of the file, a port that is taken, and
a server that starts over the file of a dead one; the hazards are between pairs.
*Dispatch:* calls do not share state but the cache, so one call with all bodies
is all there is; three parameters give a pair of string and length with
something before it.  *Client:* two functions whose parameters of the same
number differ in type; two calls whose answers overtake each other.
*Callbacks, deferreds, events, animations:* two of a kind and a third one
that comes while they are under way; a chain of three Deferreds is one that is
put off to another which is put off in turn.  *Requests:* two, nested in each
other's handlers in either order; a third one would find nothing in them that
the second does not (they share only `active` and the list of names).

**Fairness.**  `EventDelivery!FairSpec` is weakly fair to the steps a
producer, a poll or a close takes on its own: the code's threads are ordinary
threads, and a lock that is free is taken by somebody.  New calls and new events
have none; `EveryCallEnds` assumes of timers that they go off.
`AdapterLifecycle!FairSpec` is weakly fair to main, to the runner and to the
first half of `shutdown`; nothing is assumed of clients, of handlers or of the
user at the keyboard.  `ServerStartup!FairSpec` is weakly fair to the steps of a
process that was started; nobody has to start or stop one, and a crash may come
at any time.  `JqAjax!FairSpec` is weakly fair to code that returns, and to the
browser, which ends what it was asked to send; `JqDeferred!FairSpec` to
`setTimeout` and the handlers.  Nothing is assumed of the user and of foreign
code.  The others have no liveness properties: their loops are driven by
frames, clicks and answers that need not come.

Each property of a run has an entry under `mutants` with a wrong variant of the
code that violates it.

## 4. Properties and their exceptions

The properties relate what is far apart: a queue with its past and the running
delivery (`EveryEventOnceInOrder`), two maps and the clock with the history of
calls (`RegistryInv`), a client that has read a file with the process that wrote
it (`ReachesTheWriter`), the request that is sent with the form on the screen
(`RequestFits`), the verdict of a Deferred with what each thenable has said
first (`OutcomeIsFirst`).

Some hold with an exception only.  It is part of the property, stated in its
comment, and recorded by a history variable; the exceptions are what the code
really does:

* `FileIsWhole`: a server killed while it writes; files of different length.
* `StartEnds`: a background process on Windows which could not get rid of its
  console (`FreeConsole` fails) has written a second status that nobody reads;
  and `--end-port` of 65535 or more, with which the search need not end (item
  16).  `ss_start` ends at a lower port; `ss_wrapped` and `ss_endless` are
  instances in which the counter wraps.
* `OnlyTheChosen`: files were chosen anew, or the form redrawn, while
  files were read; `FieldIsTrue`: a call that fails at once.
* `DisplayedIsKept`: an input of a list may show, in place of the string that is
  kept, what the browser has drawn of it (item 17); `RequestFits`: a String that
  was not touched is sent as "undefined" (item 18).
* `NoneForgotten`: the list was emptied while it fired.
* `OriginalComesBack`: what comes back is the size of the element; if an
  animation of the style was stopped half way (`interrupted`), it comes back as a
  number, since `dataShow` keeps what `Tween.cur()` gave and not the inline style
  (`jquery-3.6.1.js:7412`, `7522`): an `auto` height becomes a fixed one.
  Excepted: two animations had the style at a time, a callback threw,
  or an animation was ended a second time, after the style was restored: a timer
  that has moved while its callbacks ran is not taken out (item 15), and
  `finish()` ends what has ended within its own start.
* `UnderWay`: the script of a JSONP request that was aborted comes late, and is
  taken for the answer to the next one, which has taken its name.
* `StateComesFirst`, `EachIsCalledOnce`, `SentinelIsTrue`, `AnimationsGoOn`,
  `PromiseIsKept`: see items 9 to 13 and 19 of the next section.  Of
  `AnimationsGoOn` only the second half has an exception: frames are requested
  as long as there are timers, whatever the user does.

## 5. Where code and documentation disagree

The first six and items 16, 17 and 19 have configurations that replay them:
`tlc -config ed_starved.cfg MCEventDelivery` prints the counterexample to 1, and
so on with the module of the same component.

1. `ed_starved`: two polls of one session at once make one of them call
   `pop_front()` on an empty queue (`json-adapter.cc:399-406`), contrary to
   `json-adapter.hh:39`.  With one poller per session (`ed_own`) it cannot happen.
2. `sr_others`: a config call is not "applied to all PEP_SESSIONs of the client"
   (`function_map.hh:226-227`), only to the caller's and to later ones.
3. `sr_foreign`: sessions are not closed with their connection
   (`README.md:180-182`); a thread id that is used again brings the former
   client's configuration with it.
4. `sr_evicted`: open connections do not keep the cache (`README.md:171-174`).
5. `al_lost`: the process does not wait for the calls being processed
   (`json-adapter.hh:71-72`).
6. `ss_wrapped`: with `--end-port 65535` and no free port the counter comes to 0,
   the system chooses a port, and the file names port 0, contrary to
   `README.md:130-133`.
7. `parse esc seq.` of the test client: `\u0041` is not the letter A
   (`interactive.js:281`).
8. A config call with an empty array of parameters reads `parameters[0]` before
   their number is checked (`function_map.hh:248`) and ends the server; the
   state `"crashed"` of `RpcDispatch`.
9. After `off()` without arguments a triggered click calls the handlers before
   the box changes (`jquery-3.6.1.js:5609-5612`).
10. `triggerHandler()` within the detour of a triggered click is taken for the
    native event (`jquery-3.6.1.js:5679`).
11. `stop(false, true)` may leave a queue that nobody moves on
    (`jquery-3.6.1.js:7850-7852`).
12. `stop()` and `finish()` take out the wrong timer, or throw, if a complete
    callback stops other animations (`jquery-3.6.1.js:7845`; the action `Crash`
    of `JqFx`).
13. `promise()` is resolved by `clearQueue()` while an animation goes on
    (`jquery-3.6.1.js:4663`).
14. `max_message_length` of the Logger is stored and never used
    (`logger_config.hh:4`).
15. `jQuery.fx.tick` does not remove every timer that is done: one that has moved,
    because its callback took others out, stays and runs its last frame again
    (`jquery-3.6.1.js:7934-7935`; `LeftBehind` of `JqFx`).
16. `ss_endless`: with `--end-port` of 65535 or more, and an address of which no
    port can be bound, port 0 neither, the search for a port never ends
    (`json-adapter.cc:264`), and the error of lines 275-279 never comes.
17. `tc_cut`: a list that is drawn anew shows, and sends, a string with a quote
    cut, and one with an entity decoded, because `genInput` does not escape it
    (`interactive.js:36`).
18. A String that the user does not touch is drawn, and sent, as "undefined"
    (`interactive.js:121`).
19. `fx_hurried`: `animate({})` while an animation of the queue runs takes its
    sentinel, so that the next one starts beside it, or `promise()` is resolved
    too early (`jquery-3.6.1.js:7769`, `7795`, `7802`), contrary to the comment at
    `4593-4594`.

## 6. Proofs

The theorems hold for any sets of sessions, threads, clients, functions, values,
connections, servers, ports, methods and requests, and for any bounds; the
assumptions are the named `ASSUME`s of the modules (special values are not
members, bounds are naturals, options belong to requests).  Four theorems have a
hypothesis of their own: `NoWrap` (a), `EscapesMeant` (b) and, two of them,
`OnePoller` (c).  (a) and (c) are those of the configurations; without them
`ss_wrapped.cfg` and `ed_starved.cfg` are counterexamples.  (c) says that each
session is polled by at most one connection thread at a time, which is how a
client that follows the protocol uses its session; in `ed_own` it is a fact of
the instance.

* **Event delivery** (`EventDeliveryProofs`).  `TypeCorrect`; then
  `StructureHolds`: `DeliveryInv` says that calls are where the mutex and their
  locals allow it, that a producer owes only sessions of the map while it holds
  the mutex, and that no two sessions share a queue.  It makes
  `EveryEventOnceInOrder` inductive: what was popped from a queue, what lies in
  it and what the running delivery still owes is exactly the list of deliveries
  since the queue was created.  Without the clause on shared queues a push would
  disturb the equation of another session; without the one on the mutex the map
  could change under the loop.  `NoticesMeanClosed` follows the same way: entries
  other than notices come from deliveries alone.  `NumbersWithoutGaps` is a
  separate induction on numbers drawn and delivered.
  `PopsFindEvents` and `RepliesConsecutive` rest on `PollsInOrder`: a queue that
  is being drained by a call is popped by nobody else, so it is at least as long
  as the number the call has read, and what the call has collected is the end of
  what was taken from the queue.  Pushes come at the other end.
* **Refinement of `Mailboxes`** (`Refinement`, in the same module).  Every step maps to a
  step of `Mailboxes` or to a stutter: `LockListeners` is `Publish`, the pushes
  that follow are invisible because the box of a session includes what the
  delivery still owes it; `LookUpNew` is `Open`; pops of a queue that is in the
  map are `Take`, others are invisible; `FindSession` is `BeginClose`,
  `SignalClose` is `Notify`, `EraseSession` is `Close`.
* **Session registry** (`AdapterProofs`).  `RegistryInv`: a
  configuration that was not forgotten is cached (`ConfigKept`), and nothing is
  cached without a time stamp (`NothingImmortal`).  Both need `TimesInOrder`: the
  time stamp of a client is that of its latest call, or absent.  The action
  properties follow from the invariant in each step.
* **Lifecycle** (`AdapterProofs`).  `LifecycleInv` joins the type, the
  agreement of the two flags, the places of the threads, the listen queue as the
  list of waiting connections, and `LateInOrder`: a late request or a late
  connection implies that the flag has fallen and that the thread in question is
  on its way to test it.  `StopsTakingWork` follows.
* **Start-up** (`ServerStartupProofs`).  `TypesHold` covers ports that wrap.
  `ReachesTheWriterHolds` needs `ReachInv`: a port is bound by one server at a
  time and was in the range of the search (`PortInv`), bytes in the file come
  from servers that were bound when they wrote (`FileInv`), and what a client
  has read names a port that its writer keeps until it dies (`ClientInv`).  It
  assumes `NoWrap`: with a counter that comes to 0 the port in the file is not
  the one that is bound, as `ss_wrapped.cfg` shows.  `FileIsWholeHolds`
  is about what the writers' lengths have in common: with `WholeInv` the file is
  always empty or whole, and empty only while somebody is about to write or
  nobody has written yet.  `StatusIsTruthHolds` relates the first status in the
  pipe, or the exit code if there is none, to where the server is.
* **Dispatch** (`AdapterProofs`).  `RefusedChangesNothingHolds` follows from
  `DispatchInv`, which says of each place which checks the request has passed
  before.  The others need `WorkInv`, about the recursion of `Func::call`:
  while parameters are extracted, `args` are those of the signature so far, `p`
  is what is left of the request's (`ExtractInv`; how many parameters are
  consumed is a cardinality), and the store of objects has an entry for each
  string that a later length refers to; while it unwinds, `out_params` are the
  outputs from the last one on.  `SettingInv` and `PassphraseInv` tie the two
  caches to the request for each class of functions.
* **Requests** (`JqAjaxProofs`).  The difficulty is the stack: calls of `ajax()`
  and `done()` are nested to any depth, and a step of the innermost one may
  concern the request of another one below.  `FrameOK` says what a call may
  assume of its request when it goes on, `OneCall` that a request has one call of
  `ajax()`; that a step keeps `FrameOK` of the calls below is one lemma for each
  kind of step (push, replace, pop).  `RequestInv` relates `completed`, the
  Deferred, the transport and the timer.  On top of this
  `ImplementsPostsHolds` maps `Settle` to `Posts!Settle`, with `Posts!Tell` if
  the caller has attached his callbacks, and the return of `ajax()` to `Tell` if
  the outcome was there; all else stutters.  `UnderWayHolds` adds that a
  request which was opened is sent before anything else happens (`WayInv`),
  that names of JSONP in use and free ones are all different and of requests that
  were made (`NamesInv`), and that scripts come late for failed requests only
  (`LateInv`).
  `EventsTakeTurnsHolds` is about a counter: `CountInv` says that `active` is at
  least the number of requests that are counted (started with global events, and
  not yet ended), equal to it as long as no code has thrown, and that `open` is 1
  exactly if it is not 0; `OneDone`, that a request has one call of `done()`, and
  `FramesGlobal` keep two calls from ending the same request.
* **Test client** (`TestClientProofs`).  `PageInv` ties the document to the
  script: `func` is the selected option, form and `func_params` have the length
  of its signature, lists are lists in both, and an input being edited belongs to
  a list that is shown (`FocusInv`); without the last clause an `onChange` could
  write to a parameter of the former function.  One lemma, `ItemStep`, covers all
  handlers that change one parameter; a new form is `PreparePage`.
  Inputs show texts, `"undefined"`, or what is drawn of a text (`Inputs`); the one
  that is being edited shows a text, so what `onChange` keeps is one (`FocusInv`).
  `DisplayedIsKeptHolds` is a part of `PageInv`, `RequestFitsHolds` follows from
  it at the click.  The latter assumes `EscapesMeant` (`"undefined"` has no escape
  sequences, and the others are what the user means): what `de_backslash`
  computes, a recursion over the text, is checked by TLC on the instance, where
  the meaning of each text is given independently.  `FieldIsTrueHolds` needs in
  addition that the field tells of a call that was made (`CallsInv`).
  `OnlyTheChosenHolds` says that readers and list have each file once between
  them: a reader that ends takes its file from the readers to the list.
* **Animations** (`JqFxProofs`).  `Structure` describes the stack: ticks do not
  run within each other, a frame that splices belongs to a loop of `stop` or
  `finish` just below, and nobody but a tick in progress counts on the engine.
  `StyleInv` says who has the style: at most one animation that shows or hides
  runs, or none; a halted one is not run again, what `fxshow` keeps is the
  number that the original came to, and what an animation will restore is this
  number or, if none was stopped half way, the inline style.  `GoInv` says that
  each animation that runs is among the timers, and that a frame which is about
  to take a timer out takes none of them away; for this a loop of `stop` or
  `finish` must be the lowest call on the stack.  The proof of
  `OriginalComesBackHolds` failed at first for a reason that the run had not
  shown, because no animation of its instance took no time: a last frame that is
  run a second time (section 4).  The model records it now, the instance has
  such animations, and the property says so. `SentinelIsTrueHolds` needs `Sent`,
  which says what the sentinel means within a step.  `Even`: it stands for one
  animation or delay that is under way, or, when this has ended, for the
  callback after which the queue moves on; without it there is neither.  `Even`
  does not hold during `finish()`, which empties the queue first (`Finishes`:
  each animation of the queue that still runs is one that its loop comes to, or
  was just made and is ended at once), nor during a `stop()` that will move the
  queue on (`Stops`: all that runs is still to come in its loop).  That the
  loops come to everything needs `LoopsFit`: the index of a loop is that of a
  timer, and no frame runs below it; hence no loop crashes either, unless the
  user has meddled (`NeverCrashes`).  `Known` ties kinds, queue and delays
  together.  Empty animations are of the queue, but stand for nothing in it:
  `HastyInv` says that one runs only between the step that makes it and the
  next, which ends it, so it does nothing to the queue but when its callbacks
  return, where `hurried` records it unless the queue is empty and moves on to
  nothing.  `Fresh` says that what waits, in the queue or in a loop of
  `finish()`, waits at one place and was not started before.  TLC checked
  `SentInv` on the instance of `fx` before it was proved. `PromiseIsKeptHolds`
  needs `Count`: `hooks.unqueued` is the number of the animations outside of the
  queue that run or whose callbacks are called (`Booked`), so 0 means that there
  are none.  Each has its callbacks called once (`Apart`); otherwise the count
  would fall twice for one animation.  What the queue itself has under way is
  known from `Even`, `Stops` and `Finishes`: they leave nothing when the queue
  is empty and moves on.  TLC checked `CountInv` on the instance of `fx`, too.

* **Callback lists** (`JqHandlersProofs`).  A callback may change the list that
  is calling it, so `firingIndex` moves while a loop stands on it.  `Inv` says of
  each list: one call of `fire()` at most is under way (`StackOK`); registrations
  stand in the list in the order of their numbers (`Sorted`); while a value is
  announced, those before `firingIndex` have been told (`Reached`) and those
  behind it come after all who have been (`InOrder`); the queue holds what has
  not been announced, or what is remembered, for those who came late (`Queued`);
  at rest all have been told (`Done`).  `Stray` is about who is not in the list
  any more though nobody removed him, `Spent` about disabled lists.  `remove`
  takes items out of the middle: `OnlyShape` says what the recursion `Only`
  leaves of a sequence and in which order, by induction on its length
  (`AllNumbers`, from the library's theorem that inclusion of finite sets is
  well-founded).  `NoneForgottenHolds` is `Done` at rest.  `AnnouncesHolds` maps,
  for each list, `FireWith` to `Broadcast!Announce`, `Call` to `Tell`, `Add` to
  `Register`, `Remove` and `Empty` to `Withdraw`; nothing else is seen.  TLC
  checked `Inv` with one list and with two before it was proved.

* **Events** (`JqHandlersProofs`).  `EventsIInv` has five parts.  The types.
  `ListsOK`: in each list the delegated handlers stand in front, as many as
  `delegateCount` says (`FrontOK`), the controller comes before all others of a
  check box (`Led`), and a handler's number is in one place.  `Good`, about the
  stack, which handlers make as deep as they like: each call was made by the one
  below it (`Nested`), the elements in `clicking` are those of the calls of
  `click()` under way, one for each (`Clicks`), `triggered` holds exactly while
  `trigger()` does its default action, and then nobody's handler can run
  (`Defaults`), private data are only kept for a controller that waits on the
  stack (`Kept`), and the items of a queue are bound on that element or nowhere
  (`QueuesOK`).  `LogOK`: a handler of `one()` that was called is not bound.
  `StartOK`: until the box has changed, a gesture has called no handler, and is
  over or still at its start, where the controller comes next.
  At rest the stack is empty, so `Defaults`, `Clicks` and `Kept` leave nothing:
  that is `NothingLeftBehindHolds`; an exception may drop any number of calls, and
  the lemma `Drop` says that what is left of the stack is still `Good`.
  `StateComesFirstHolds` is `StartOK`; it needs `Led`, hence what `Insert`,
  `Only` and `Queue` (with `Joined`) make of a list, and that a controller is
  taken away together with all else.  `EventsAssumption` says that the path from a
  node to the root meets no node twice, and that check boxes and radio buttons,
  void elements in HTML, have no descendants.  The invariant for
  `EachIsCalledOnce` was tried on a page of three levels, where that property
  turned out to be false as it stood: when a handler removes the target of a click
  that is under way, jQuery does not find the handlers delegated to the elements
  above it either (`RemoveElement` lets these go from `due` now), and a check box
  within another would be clicked for both.  TLC checked `EventsIInv` on the
  instance of `events`, for the part of it that it reached, before it was proved.

* **Deferreds** (`JqDeferredProofs`).  A Deferred that `then()` has made is
  settled by whatever holds the functions of `process()`: a listener on another
  Deferred, a timer, a foreign thenable that may call them whenever it likes, or
  a call under way.  `Tokens` says what each of these may still do: its depth is
  at most `maxDepth`, so the test on `maxDepth` silences all but the newest; who
  was put off to a Deferred listens to this one, or a timer carries what it was
  settled with; and the first call of the handler, which is the only one to come
  with depth 0, has one place (`ZeroOK`).  With this `OutcomeOK` is inductive:
  `first` has as many entries as thenables that were asked, or one less; each but
  the last has put the Deferred off; if it is settled, then as the first one said
  that did not; and what is said for a Deferred is the outcome of this Deferred.
  `OutcomeIsFirstHolds` is a part of it.  A step may run `process()` within
  `settle()` within a call of a handler, and it pushes and pops frames that the
  invariant speaks of by their places, so each kind of push, pop and shift is a
  lemma of its own (`Shifted`, `Pushed`, `Heard`), as is what settling does to
  heap and `when()` (`Settled`, `SettleGood`).
  `WhenWaitsHolds` follows from `WhenOK`: what remains is the number of arguments
  minus those that have come, although an argument can come within the loop of
  `when()`; for this `WhenFrames` says that there is one such loop and `Own` that
  nobody else settles the Deferreds of `when()` and `ready()`; and from `ReadyOK`:
  `readyWait` is the number of holds, and one more until the document is ready.
  `NoneAssumption` says only that "no call of `when()`" is not one.  TLC checked
  `Inv` on small instances before it was proved.

## 7. Only model-checked

* Liveness (`EveryCallEnds`, `ShutdownEnds`, `StartEnds`, `ChainsEnd`,
  `OutcomeComes`): needs fairness and ENABLED, beyond the prover.
* `EachIsCalledOnce` of `JqEvents`: an invariant within reach of the prover, but
  not proved yet.

`TypeOK` of a module tells the range of each variable.  It is proved of event
delivery, the registry, the start-up, the dispatch, the callback lists and the
events.  The configurations do not list it; it
holds of the instances of all other modules (put `INVARIANT TypeOK` in place of
the properties to see it).

## 8. Not modelled

* **Registry**: `remove` and `for_each` are never called; Engine functions.
* **Lifecycle**: URL dispatch and the delivery of files; losses on the
  connection after an event was popped (`webserver.cc:207`), because nothing in
  the code answers for them.
* **Start-up**: the generator of the token (see the hazard at
  `security-token.cc:24`); a `ReadFile` of zero bytes. Exit code 20 (an
  exception that is no `std::exception`) is taken as 1.
* **Dispatch**: the conversion of structs, field by field, is abstracted to
  whether a constructor accepts its value; `Context::augment`.  A body that
  breaks off is one more request; that two ids may be equal after the cut to an
  int is not looked at.
* **Test client**: `server_version`, the table of functions, tooltips, pictures;
  numbers and check boxes; what a browser makes of the rest of a string behind a
  quote (attributes, as long as it has no `=` or `>`); that `de_backslash` sees
  the characters of an entity one by one.
* **Deferreds**: `notify` and `progress`; `always`, `pipe` and `catch`, which
  are made of what is modelled; the exception that `ready()` throws again; a
  Deferred that waits for itself over others; `when()` without arguments, or with
  the Deferred of `ready()`.
* **Requests**: the branch without a transport (`9692-9693`), headers,
  `ifModified`, `dataFilter`, the url, `load()`, names of JSONP that the user
  chooses; what a script does that comes as an answer.
* **Events**: `_default` of links (`5592`), focus and blur, mouseenter and its
  like, several types in one call, properties of event objects.
* **Animations**: other queues, easing, overflow, options for one property,
  step callbacks, more than one element.
* **Rest of jQuery** (Sizzle, manipulation, attributes, styles): functions of
  a page, without state that outlives a call, of a third party.
* **Logger**: formatting under a mutex; its hazards are listed.
* **Unicode normalisation, Base64, C strings, Engine types**: pure conversions.
  An alphabet small enough for TLC would leave out the generated tables, which
  are what could be wrong.
* **Handle registry**: no part of the program instantiates it.
* **json_spirit** is vendored; the **viewers** of logs and crashes keep no state;
  the **hot fix program** runs once, one statement of SQL after the other; tests
  and build files.
