# Verification of authentigate

authentigate is an edge server: it signs users in (OAuth, or a TOTP
authenticator after the operator approved the signup), gives each a revocable
session token, and relays requests that carry such a token to microservices.
The repository also holds some of those microservices and a host-name proxy.
This directory models it in TLA+, checks the models with TLC and proves
theorems about them with TLAPS.

## 1. Inventory

| Part | Source | State | Operations | What is hard | What makes it correct |
| --- | --- | --- | --- | --- | --- |
| Session and account store | `main.go`, `auth_tokens.go`, `io.go`, `keyval.go`, `totp_pending.go` | four tables of JSON files (`users`, `sessionTokens`, `foreignIDs`, `userNames`), `totp_pending.json`, the mutex `b.mu` | token check of every request, showing and rotating the token, changing the name, TOTP signup and login, OAuth and develop callback | a goroutine per request; only part of each handler runs under `b.mu`; a step may fail, be cut short, or be the last before a crash | a revoked token never works again; only the current token changes an account; a rotation never locks the user out; indexes lead to complete accounts; names and identities are unique |
| Camera streams | `modules/cameraview` | the manager's stream, a subscriber set per stream, a bounded channel per viewer, contexts | join or start, pump, broadcast, evict, leave, end | a pump, a handler and a watcher goroutine per viewer, two mutexes, closing channels, a client that stops reading | one connection to the camera; a prefix without gaps; no use of a closed channel; nobody is left behind; the camera is released |
| Relay | `main.go` | none (configuration) | route patterns, bans, GET, POST, PUT to a service | a service that fails, breaks off or is silent; the transport repeats requests; panics | a POST or a PUT happens at most once; a GET's success is the service's, or the login page |
| Stream relay | `main.go` `relayStreamHandler` | the upstream body, a watcher goroutine | copy and flush, close when the client goes | the watcher closes the body during a read | a client that leaves frees the connection, the handler and the watcher |
| WebSocket forwarding | `websocket.go` | two connections | handshake upstream, then upgrade, two pumps | either pump may end or block first | messages in order, nothing left open, both ends close |
| OAuth redirect | `main.go` `redirectHandler` | the global `providerSecrets` | read once, redirect | unsynchronised, and assigned before it is read | a failed read does not count as configured |
| Log redaction | `auth_log.go`, `websocket_log.go` | none | rewriting messages | strings | no secret in a log |
| Access log | `main.go`, `vhoster/request_log.go` | a buffered writer | one line per request | an error of the writer stays; the gateway shares it without a lock or flush | the line of an answered request is in the file |
| Virtual hosts | `vhoster` | none (configuration) | choose the upstream by suffix of the host, relay | order of redirects, panics | the most specific route serves |
| Presence | `modules/presence` | rooms and users in memory, `room_lock`; the client's token files | report, list, host; the client's reports | references to shared maps, a page written with the lock held | nobody who was answered is missing; a page has everyone of its room |
| Menu | `modules/menu` | a message per user in a bolt database | send, check, upload, image, shutdown | read, answer, clear in three steps; crashes | a message is delivered once or kept, to a device whose connection holds |
| Shop | `modules/shoppingdemo/restserver` | a file per user and one for the shop | baskets, coupons, purchase | load, change, save without a lock; truncated files | an account is its user's own; orders have the listed prices |
| Shop front end | `modules/shoppingdemo/frontend` | none | pages that make one or two calls | two calls that must agree; errors and statuses of calls are ignored | what the page says is so, as far as the code keeps it (section 7) |
| Pages, scripts, `ngfileserver` handlers | `files`, `docker`, `main.go:1041` | none | the handlers at the end of `main.go` have no route | | |

How they meet: clients talk to `vhoster` or to the gateway. The gateway checks
the session (`makeAuthedRelay`) and calls a management handler, which works on
the store, or a relay handler, which makes a new request to a microservice with
the headers `authentigate-id`, `authentigate-token` and three base URLs. The
microservices trust these headers and share nothing with the gateway. Within
the gateway requests share only the store, `totp_pending.json`,
`providerSecrets` and the access log.

The hazards of this code, each at its line, are in `PROJECT.json`, with the
properties that would notice them.

## 2. Plan

| Order | Module | Models | State |
| --- | --- | --- | --- |
| 1 | `Gateway`, `GatewayProperties` | the session and account store and its handlers | checked |
| 2 | `RevocableTokens`, `GatewayRefinement` | the promise of SPEC.md, "Token Rotation", and that the gateway implements it | checked; the refinement proved |
| 3 | `GatewayInduction`, `GatewayProofs`, `GatewayAccountProofs` | the inductive invariants of the store and their proofs | proved |
| 4 | `CameraStream`, `CameraProperties`, `CameraProofs` | sharing a camera | checked; safety proved |
| 5 | `ConnectionPair`, `WebSocketRelay`, `WebSocketProperties`, `WebSocketProofs` | a relayed WebSocket, and the pair of connections that it implements | checked; safety and the refinement of `Pair!Safety` proved |
| 6 | `Routes`, `Forwarding`, `ForwardingProperties`, `ForwardingInduction`, `ForwardingProofs` | requests through both hops (`vhoster` and the gateway's relays), streams, access logs, routing | checked; safety of requests proved |
| 7 | `Pricing`, `Customer`, `Shop`, `ShopProperties`, `ShopInduction`, `ShopProofs` | the shop with its front end, against an account per customer | checked; all safety properties and the refinement of `Customer` proved |
| 8 | `Mailbox`, `MailboxProperties`, `MailboxInduction`, `Presence`, `PresenceProperties`, `ModulesProofs` | two services that keep state in memory or in a database | checked; safety proved |
| 9 | `SequenceFacts` | facts about numbers and sequences that the proofs of 5, 6 and 7 share | proved |
| 10 | `ProviderSecrets` | the lazily read secrets of `redirectHandler` | not begun |

## 3. The gateway

### State and steps

`users`, `sessionTokens`, `foreignIDs` and `userNames` are the tables of
`authDB`; a key that is absent is `None`, a file that cannot be decoded `Torn`.
`pending` is the content of `totp_pending.json`: entries, `Empty` (truncated by
`os.WriteFile`, not yet written) or `Garbled`. `mu` is `b.mu`. Each request has
a step (`at`), what it presented (`req`), its handler's locals (`id`, `user`,
`snap`) and its answer. `approvals` is history.

A request takes the steps between which another goroutine can see or change
what it uses: an access to one table, to the mutex, or to the pending file. A
critical section is several steps, since the parts of the program that do not
take `b.mu` (logins, callbacks, the index tables) run between them.

| Handler | Steps |
| --- | --- |
| `makeAuthedRelay` | `Authenticate`, then `Forward` for a relay or `Recheck` for a management handler |
| `tokenShowHandler` | `Recheck`, `Show` |
| `updateUserHandler` | `Recheck`, `ReadForm`, `CheckName`, `SaveName`, `IndexName` |
| `newTokenHandler` | `Recheck`, `MapToken`, `SaveToken`, `DropOld` |
| `totploginHandler` | `LoginLookup`, then `Load` and `Send`, or `LoginPending`, `Create`, `NewToken`, the rotation, `Index`, `Truncate`, `Fill` |
| `totpsignupHandler` | `SignupLookup`, `SignupPending`, `Truncate`, `Fill` |
| `callbackHandler` | `LookupForeign`, then `Load` and `Send`, or `Create`, `NewToken`, the rotation, `Index`, `Remap`, `Send` |
| `developCallbackHandler` | as a new callback, with the id "1" |
| the operator | approves an entry of the pending file |
| the process | `Crash`: all requests end, the tables and the file stay |

Names, identities, tokens and secrets are model values; a request draws at most
one id, token and secret, all random, so each is named by its request. The QR
code, cookies' attributes and pages are left out; what an answer hands to the
client (id, token, secret) is kept. Requests present only what clients have:
cookies and authenticator secrets of earlier answers.

### Faults

Each write of a file may fail (`err != nil`) or be cut short and leave the record
undecodable, which every later read meets. A read that fails although the file is
in order is modelled where the code treats it unlike any content of the file: in
`LookupForeign` and when the pending file is loaded (`Loaded`), which both take it
for an absent entry and go on to write. Elsewhere such a read has the outcome of
an absent or an undecodable record, which the model has, but not at a moment when
the record is there. A crash in the middle of a write is a write
that fails followed by a crash. `MaxFaults` bounds faults and crashes together.
The code's treatment differs by place and so does the model's: `saveUserLocked`
panics, `IndexName` and the second mapping of `setupNewUser` ignore the error,
`DropOld` logs it.

### Fairness

`FairSpec` has weak fairness of the steps of each request that the Go scheduler
and the file system carry out (`Serve`). Weak fairness is enough for the mutex since
requests are finitely many. No fairness is assumed of clients sending requests or
their forms, of faults, or of the operator.

`ReadForm` is therefore not fair: `updateUserHandler` parses the form with `b.mu`
held (`main.go:375`, after the lock at 366), and no server sets a read timeout, so a
client that announces a body and never sends it keeps the mutex for ever.
`EveryRequestAnswered` says what is left: a request is answered unless it reads its
own form or is about to take the mutex from one that does (`HeldUp`), and every
request is answered if every form is sent or given up at last. The first part
shows that nothing but that client can stop a handler; that a client can is a
hazard of the code, and listed.

### Runs

| Run | Bounds | Shows |
| --- | --- | --- |
| `gateway_faults` | one account, three requests to any handler, one fault or crash | types and seven properties of tokens and accounts (below) |
| `gateway_promise` | one account, two requests to any handler, three faults or crashes, fairness | refinement of `RevocableTokens`; the inductive invariants (`AccountInv`, which contains `SessionInv`); every request is answered unless a client that withholds its form holds it up (`EveryRequestAnswered`) |
| `gateway_sessions` | two accounts, three requests (management, relay, TOTP login), no fault | names stay unique; a current token is always accepted and no obsolete mapping is left (`ExactMappings`); one rotation per token (`OneRotationPerToken`), which leaves name and enrollment alone and answers with the current token (`RotationComplete`) |
| `names_of_signups`, `first_callbacks`, `overlapping_signups` | two or three requests, no fault | the disagreements of section 10 |

Three requests suffice for the interesting orders: a rotation, a request that
was authenticated before it, and a login that hands out the token. Two names or
identities suffice for a conflict and its absence. Requests are interchangeable
(symmetry) in the runs of safety properties without a refinement.

`gateway_faults` checks that a revoked cookie never authenticates again
(`RevokedForGood`); that a record changes only by the holder of `b.mu` with the
record's current token (`OnlyCurrentTokenChangesAccount`); that a current token
has its mapping (`CurrentTokenIsMapped`); that an index never leads to an
account without token or secret (`IndexedAccountsComplete`); that a login
proved its secret (`LoginProvesSecret`); that a promotion was approved
(`PromotionNeedsApproval`).

### Proofs

The theorems hold for every number of requests, accounts, names, identities and
faults; they assume `GatewayAssumption` (constants are distinct values, which
TLC's model values are, and `Handlers` names handlers of the program), and two of
them also what their run instantiates: `NoRemaps`, `NoSignups`.

- `TypeCorrect`: types, together with `Prepared`: at each step a request has the
  locals that its remaining steps use. No step of a handler dereferences a nil
  record or creates an account out of nothing.
- `SessionInvariant`: `SessionInv` of `GatewayInduction` is invariant.
- `MappedTokens`, `IndexedComplete`: safety properties that follow from it.
- `RevokedStaysRevoked`, `ChangesNeedToken`: action properties, from the
  invariant in the states before and after the step.

None of the session properties is inductive by itself. `RevokedForGood` could
fail if a step wrote back a record or a mapping that was read before a rotation,
so the invariant says what each request in progress may still write:

- `Mutex`: `b.mu` is held in exactly the critical sections.
- `HoldsRecord`: the holder has the record that the store has, and presented its
  token, or it is making the account and there is no token.
- `NewAccount`: only request r touches account r before it is indexed.
- `HoldsSpent`, `SpentRecords`: records, locals and answers hold only tokens
  that are already saved, never the fresh token of another request.
- `RotationOrder`: mapping before record before removal, and the old token is
  current for no account when its mapping is removed.
- `OneAccountPerToken`, `AccountsComplete`: the store.

The proof splits the step of a request from what it means to the others:
`StoreStep(r)` is what any step of r may do to the store, and a lemma shows that
the conditions of every other request survive it (rely); each action is then
shown to be a `StoreStep` (guarantee) and to restore its own request's
conditions. A crash and the operator are separate cases.

`GatewayAccountProofs` goes on from there:

- `KeepsPromise`: the gateway implements `RevocableTokens`. An account is open to
  a token exactly if its record and the mapping agree (`OpenedByToken`, from
  `OneAccountPerToken`), so a step of the store opens or closes at most the
  account it writes, and each action is a step of the abstract specification or
  a stutter. In between a rotation is atomic: it happens when the record is saved.
- `AccountInvariant`: `AccountInv` adds to `SessionInv` what a request has shown
  for itself. `Served`: it is answered at its last step. `TokenUsedUp`,
  `RotatedOnce`: a rotation that has saved the record has taken the token that it
  presented out of use; two of the same token would both have been its holder
  under `b.mu`. `SecretShown`: what a login knows of the account's secret at each
  step of both ways it can take. `Promotable`: entries that are approved are the
  operator's, in the file and in every snapshot that a handler still holds.
- `LoginsProveSecret`, `RotatesOnce`, `RotationsComplete`, `PromotionsApproved`
  follow from it.
- `MappingsExact`: as long as nothing fails the mappings are exactly the current
  tokens, where no handler maps a token outside the critical section
  (`NoRemaps`: no callback logins, as in `gateway_sessions`). The hypothesis is
  needed: the second mapping of `setupNewUser` can come back after a rotation has
  removed it (section 10).

- `RenamesKeepNamesApart`: as long as nothing fails, two accounts share a name
  only if a TOTP login made one of them. `NamesInv` follows a name from the form
  to the index: a renaming looks the name up and saves it in one critical section,
  so two renamings at once cannot both find it free, and it indexes the name before
  it releases `b.mu`, so a later one finds it (`Claimed`, `NamesPresented`). A
  callback's account takes a name from no form.
- `NamesAreUnique`: hence `NamesUnique` where nobody signs up (`NoSignups`, as in
  `gateway_sessions`). This hypothesis is needed too: the run `names_of_signups`
  of section 10 has two logins of one signup at once.

Only model-checked: liveness.

## 4. The camera

`CameraStream` models one camera; the cameras share only `m.mu`, which nobody
holds while waiting. A stream is named by the viewer that starts it. Steps are
the critical sections of `m.mu` and `s.mu`, and what goroutines do between two
of them; `cancel`, which the code calls after `s.mu.Unlock()`, is a step of its
own.

| Goroutine | Steps |
| --- | --- |
| `streamHandler` | `Join`, `AwaitReady`, `Take`, `WriteDone` or `WriteFails`, `EndStream`, `Unsubscribe`, `CancelLast` |
| `watchViewer` | `Watch`, which may set the write deadline |
| the pump of `getOrStart` | `Open`, `Read`, `Broadcast`, `Cancel`, `ReadEnd`, `Remove`, `CloseAll` |
| clients and the camera | `Disconnect`, `WriteDone`, `Read`, `ReadEnd` |

Chunks are numbered; `got` is history and is forgotten when the handler is done.
The return of a handler and the first step of its deferred `stopWatching` are
one. A Go `select` with several ready cases is a free choice. The body of the camera's
response is closed in the same step as the removal from the manager, the call
that follows it; a last chunk that comes with the end of the stream is a chunk
and then the end.

| Run | Bounds | Shows |
| --- | --- | --- |
| `camera_viewers` | two viewers, queues of one, at most five viewers and chunks together | what a client gets has no gap, also up to an eviction, and a subscribed viewer has or will have everything (`WholeStream`); no channel is used after it is closed (`SubscribedChannelsOpen`); a stream that serves viewers is the one that the next viewer finds (`OneUpstream`); nobody joins a closing stream (`BadGatewayMeansRefused`) or waits at one that has ended (`NoViewerLeftBehind`); the connection of an evicted viewer is broken (`EvictedDisconnected`) |
| `camera_leaving` | the same with at most three viewers and chunks together, fairness | who is evicted or gone is done; a stream without viewers ends |

With queues of one, three chunks are needed to evict a viewer that is blocked in a
write: one in the write, one in the queue, one too many. `MaxLoad` bounds viewers and
chunks together, so that in the first run two viewers can meet this. Two chunks evict
a viewer that has taken none; the `select` of its handler may then still take the
chunk that is queued and block in writing it, which is how the second run meets an
evicted viewer in a blocked write. Two viewers are enough for a stream to be closed by
its last viewer while another one comes, to be replaced in the manager and to end
after that; `OneUpstream` is stated so that a third viewer is not needed to see two
connections.

Fairness: goroutines are scheduled; `openCamera` has a dial and a header
timeout; a read ends once the context is cancelled. Clients need not read and
the camera need not send. A viewer that stops reading and whose stream has ended
is the one that nothing in the code unblocks (it is listed as a hazard); the
properties do not claim otherwise.

### Proofs

`CameraProofs` proves all six properties of `camera_viewers` for every number
of viewers and chunks and every capacity of the queues, from `CameraAssumption`
(the capacity is at least one). Since `MaxLoad` is any number, the bound of the
runs is no restriction here. `CameraInv` strengthens them by what each party
can count on:

- `StreamStages`, `ViewerStages`: what the pump and each handler may find at
  their step; a handler between its channel's end and `Unsubscribe` is not in
  the map any more, or its stream has ended.
- `Subscribed`: a subscriber's channel is open and its stream not closed, so
  `broadcast` and `closeAll` close a channel at most once.
- `Endings`: who ended a viewer: the pump, which has closed the channel, or the
  eviction, which the watcher or the handler will turn into a broken connection.
- `Queues`: the queue continues without a gap what the client has, and a
  subscriber's ends at the last chunk that was read.

The proof has a lemma per action that says what it does to one stream and one
viewer, and a lemma per part of the invariant with a case per action. Only
model-checked: `LeaversLeave`, `UpstreamEnds`.

## 5. A relayed WebSocket

`WebSocketRelay` models one request that `upgradeAndHandle` serves: `Dial`, the
upgrade, the handler's own pump, and the helper goroutine with the other pump. Which
part closes which connection and in what order is the code's: when its pump ends, the
handler closes the browser's connection and then the upstream's, the helper the other
way round, and this ends the other pump's read or write. A message is two frames, so
that its end can be cut; a pump ends the writer of the message however the copy ended,
as `relayWebSocketMessages` does. A side is live, stalled (it neither reads nor sends,
without a sign), gone or reset; `Window` messages fit on the way to a side that does
not read.

| Run | Bounds | Shows |
| --- | --- | --- |
| `websocket_relay` | three frames a side (a message and the beginning of the next), a window of one, one subprotocol | messages keep their order, none is left out, and only the last can be cut, when its sender's connection has ended; a handler that returns leaves nothing open (`RelayInv`); the subprotocol and the escaped suffix of the path are handed on as SPEC.md says (`HandshakeKept`); either end ends both, unless the other side has stalled (`EndsTogether`); refinement of `ConnectionPair` (`ClosesAsPair`) |

One message in the window and another to write is enough for a write that
blocks; two subprotocols would show nothing that one and none do not. The route
suffix is checked for all paths of up to four plain or escaped bytes.
`ConnectionPair` is SPEC.md's promise: the upstream connects first, messages go
to open connections only, and a connection follows the other one when that
closes; its fairness is implemented too.

Fairness: goroutines run, the dialer has a handshake timeout, and a live side
reads what it is sent. Nobody has to send or to leave. A write has no deadline, so
a stalled side keeps the relay although the other one leaves; `EndsTogether`
says so, and the hazard is listed.

`WebSocketProofs` proves `RelayInv` and that every behaviour satisfies
`Pair!Safety`, for all bounds and sets of subprotocols. `RelayStages` says for
each step of the handler and the helper which connections and pumps they can
find; `PumpCounts` relates the frames read to the messages written (two for each
while the other side stays); `Orders` says that messages are numbered without a
gap and only the last may be cut. The refinement maps each action to a step of
the pair or a stutter. `HandshakeAlwaysKept` has `HandshakeKept` in two halves:
`SubprotocolKept`, for any subprotocols, and the suffix of the path, which follows
from `SuffixStaysEscaped`: for every path of plain and escaped bytes, the `offset`
that counts decoded bytes is the length of their escaped forms, by induction over
them. Only model-checked: liveness and the fair part of the refinement.

## 6. Requests through both hops

`Forwarding` composes the two proxies: a request comes to `vhoster` ("edge")
and goes on to the gateway, or to the gateway alone, and each hop makes a
request of its own, waits, answers, and writes its access log. The check of the
session is `Gateway`'s and appears here as what it finds, `access`: a banned url is
refused with 403, and a request without a valid session gets the login page with
status 200 (`frontPageHandler`, `displayPage`), so a browser cannot tell it from a
success by its status. Each relay handler is
modelled with its own treatment of a failure: `relayGetHandler` passes a status
on, the handlers of POST and PUT read the reply to its end, some panic, some
answer a page. A reply's body is whole, broken (its reader notices), cut (its
reader cannot), empty, or a page of a hop. `net/http` repeats a request that may
be repeated when its connection breaks before the reply; it is modelled from
how the code uses it (`external` in `map`).

"LIVE" is a GET whose reply is a `multipart/x-mixed-replace` stream: the
gateway's handler copies parts, and a watcher goroutine closes the body when the
browser goes. `vhoster`'s access log is its mutex, buffer, file and the sticky
error of `bufio.Writer`; the gateway's has no mutex, so lines can overwrite one
another, and the model has this as a choice of outcomes. `Routes` has the two pure
algorithms: the first redirect whose host is a suffix, and the conversion of
route patterns.

| Run | Bounds | Shows |
| --- | --- | --- |
| `forwarding` | one request of any kind and a second one (a POST through both hops or a GET to the gateway), one repetition, streams of one part | who shows a valid session and is told of success was served so (`AnsweredTruly`, for GET at both hops and PUT at the gateway), and no service sees a request that is banned or has no session; a POST or a PUT reaches the service at most once, a POST not in part, and the reply to either is not cut (`ChangesSafe`); an answered request is in `vhoster`'s log (`AnsweredIsLogged`); the most specific route is taken when no host hides a later one, and patterns are converted segment by segment (`RoutesAsConfigured`); a reply of the service arrives, and a browser that leaves a stream frees its connection, handler and watcher (`EndsInTime`) |

What these properties do not say is what the code does not keep. A POST's status is
not passed on, nor a PUT's by `vhoster`, so of those a success says nothing: the hop
makes it up. A PUT of which only a part came is sent on as a whole one
(`main.go:623`). Go's transport may repeat a GET, and some GETs of this repository
change state: `addItem` and `purchase` of the shop, `check` and `send` of the menu.
`AnsweredIsLogged` is about replies with a body; the 404 pages that `vhoster` writes
itself and the POST that gets no reply have no line. `RoutesAsConfigured` is about
lists of redirects in which no host hides a longer one; another list is routed as it
is written.

Two requests are enough for the mutex, the sticky error and the unlocked
writer. Routes are checked for all hosts of up to three labels in
configurations of three redirects, patterns up to three segments and a wildcard.

Fairness: the handlers of both hops and the watcher run. `LockLog` is strongly
fair since Go's mutexes hand over to a waiter that starves. The service and the
browsers need not do anything; `http.Client` has no timeout at the gateway
(`main.go:657`), so a silent service holds its request for ever and `EndsInTime`
begins when the service has answered.

`ForwardingProofs` proves `AnsweredTruly`, `ChangesSafe` and `AnsweredIsLogged`
for any number of requests, services and routes, and any number of repetitions and
stream parts, from the named assumptions of `Forwarding` (what may be asked for
is a request, and `None` is none). `ForwardingInv` says of one request at a time
how its steps at the three nodes fit together:

- `InTurn`: a hop moves only while the one before it waits, and the service works
  only while the gateway waits, so an answer does not change once somebody has
  relied on it.
- `TruthOf`: whoever has a success to tell has the status of a service that
  executed the request, or has no session; a stream is copied only from such a reply.
- `OnceAtMost`: what is not a GET is executed only from the gateway's wait, and
  is not asked for again; a POST that came in part never leaves its first hop.
- `WholeOf`: no reply that is read to its end is cut.
- `LineOf`: a line that is to be flushed is in the buffer, and that of an
  answered request in the file; the mutex and the sticky error make a flush write
  the whole buffer or end in a panic.

Each action has a lemma that names what it changes of its own request; the log,
which requests share, only grows.

`RoutesAsConfigured` is proved from two theorems that are more general than what
the run tries. `MostSpecificIsTaken`: in any list of redirects none of which hides a
later one, the first that matches a host is the longest that does, because two
suffixes of one host are suffixes of each other. `PatternIsConverted`: in a pattern of
any number of plain and ":" segments, with or without a "*" segment at its end and
of any letters but these and "/", each segment is converted as it should be. The
invariant of the conversion's loop is that after some rounds the pattern is its
first segments converted, joined with the others as they were; a round converts the
next segment that has a ":", which ends where the next "/" begins or the pattern
ends. Only model-checked: `EndsInTime`.

## 7. The shop

`Shop` has the REST server and its front end. A handler is a sequence of steps,
each an access to a file: `LoadUser`, `LoadStore`, the truncation and the write of
`SaveUser` and `SaveStore`. A page of the front end is one or two calls, each
begun when the one before returned. A file is a record, `NoBytes` between
truncation and write (also after a failed write or a crash), or `Mixed`, when
two writers overlapped; a file without a readable record is loaded as a new user
or a new shop, as `LoadUser` and `LoadStore` do. `Pricing` has
`recalculateBasket`, whose loop is the number of rounds after which it stops,
and `calculateOrder`. Amounts may be negative; `addItem` panics on one that
is no number. Numbers are ideal integers: neither an overflow of Go's `int` nor the
rounding of `float64` is modelled, but a line of an order beyond `Largest` is infinite.

The front end ignores errors and statuses of its calls (`client.go:163`) and prints
"Purchase confirmed" in every case (`client.go:237`). It puts the coupon into the URL
as it is (`client.go:227`), so one with a space makes a request that the server
refuses: an `Unsendable` coupon, whose call fails before its handler begins. And a
coupon's discount can make a line infinite, on which `SaveUser` panics before it opens
the file (`io.go:27`): `TooMuch`. Both end in a page that confirms a purchase that was
not made. `PricedAsListed` and `PagesTellTruth` therefore name these two (`NotOrdered`)
and say that there is no third, as long as the server has no fault.

Nothing is locked, so a user who makes requests at once can lose an update.
That is what "load, change, save" means and the properties do not deny it: u1 is
*careful* (waits for an answer before the next visit) and u2 is not. `Customer`
is the abstract shop: an account per careful customer on which each request acts
at once, and which only a fault of the server takes away.

| Run | Bounds | Shows |
| --- | --- | --- |
| `shop` | two users, four visits, one failed write or crash, a coupon that cannot be sent and one that makes an order infinite | a user's file has nothing that this user did not ask for (`AccountsAreOwn`); every order has the listed prices and at most the coupon whose code was sent (`PricedAsListed`); what the checkout page shows is one basket, and a confirmed purchase is in the account but for the two coupons (`PagesTellTruth`); bundles never cost more, leave nothing below zero and are all there are to have (`BundlesPayOff`); refinement of `Customer` (`AnAccountEach`) |

A visit happens once, so the instance comes to an end: the run does not check
deadlock. The visits are chosen so that a coupon is made, and reset by another
user, while orders are computed, and so that the discount on seven apples is
met. `BundlesPayOff` is evaluated for 5 to 8 apples with -1 to 9 pears and bananas.

`ShopProofs` proves the five properties for any users, visits, items,
coupons and faults, from the named assumptions of `Pricing`, `Shop` and
`ShopProperties`: the items of the price list exist, visits ask for pages that
there are, for items and amounts, and a careful one only for `Amounts`; a file
without a record is no account. `BundlesAlwaysPay` has a hypothesis of its own: the
items are finitely many, or a total would mean nothing.

- `OrdersPricedAsListed`: the prices that the code has are what is saved, what a
  torn file is replaced by, and what is loaded, so they are what an order is
  computed from (`PriceInv`). Coupons are carried along in the same way.
- `AnAccountForEach`: the shop implements `Customer`. The account of a careful
  user is what his visit is about to write, if it has truncated the file, and
  otherwise what the file would be loaded as; a request acts on it when it
  truncates the file. `OwnInv` is why this is one step: a careful user has one
  visit under way (`OneVisit`), which goes through its page's calls and their
  steps in order (`CallsInOrder`, `StepsInOrder`), so what its handler has read is
  still what the file has (`ReadsAreCurrent`), and his file is empty until it is
  written and never mixed (`FilesWhole`). A failed write and a crash lose the
  accounts whose files are empty: one `Fault` of the abstract shop.
- `PagesAreTrue`: `CheckingOut` and `Confirmed`, on top of `OwnInv`, say what an
  account has while a checkout page is between its two calls, and what it keeps
  of a purchase that was not `NotOrdered`. A handler whose order cannot be saved goes
  past the truncation as one does whose file cannot be opened (`GoesPast`), and leaves
  the account as it is.
- `AccountsAreTheirs`: `AccountsAreOwn`, of users who wait and of those who do not.
  Its parts are `FilesTyped`, the types of all files and of whatever is read of
  them; `OrdersAreAsked`; and `ItemsAreAsked`. Two visits of one user at once may
  save over each other, so an account is no sum of what was asked for; but each
  saves what it has read and one addition or order of its own. `Purchases` and
  `Additions` therefore count as done only what has been saved or never will be,
  bound every file and every record that a handler has read by it, and let the count
  grow with the save.
- `BundlingSettles`: bundling ends for every basket, bundling again changes
  nothing, and no count becomes negative that was not. The refinement needs it:
  `purchase` bundles a basket, and `calculateOrder` bundles it again.

- `BundlesAlwaysPay`: `BundlesPayOff`. A bundle takes away fruit for 16000 and adds
  12600; the discount from seven apples on is less than one apple.

A sum is a recursive definition of the library, about which nothing is known
beforehand. `ShopProofs` derives what is needed from the definition alone: such a
function exists on the subsets of a finite set (`Iterates`), there is only one
(`SameSum`), the order in which it adds does not matter (`SumTakes`), and it is
monotone (`SumGrows`, `SumCompares`). The induction is that of sets, over the subsets
that have the property (`AllSubsets`), so it needs no operator as a parameter.

## 8. Mailboxes and presence

`Mailbox` is `modules/menu`: every handler that reads or changes a user's
message, each bolt transaction a step. `checkHandler` reads, answers and clears;
an answer that fits the buffer of the response leaves when the handler returns,
a `Large` one at once, and this decides what a crash or a broken connection loses or
repeats. The connection of a device may break at any time (`Disconnect`): the handler
is not told, ignores the error of the write (`menu/main.go:114`) and clears the message
all the same, so it is lost, or has arrived without the end of the answer. A
message of one byte is `Short`: `Get` takes it for none. A user in `TakesTurns`
has one request at a time, where one that broke off counts as over although its
handler may still run; of others only `OwnMailOnly` is claimed. `NeverLost` promises a
user who takes turns that a message which was answered as stored is fetched by a check
of his that brings all of it to its device, unless that check's own connection or the
server breaks down, and nothing once an earlier request of his broke off. `NeverTwice`
has the same exceptions.

`Presence` is `modules/presence`: rooms and their users are maps in memory, and a
handler holds references to them, so a room that two handlers made at once would
be two maps. The page is written with `room_lock` held: a page of `BigPage` users
does not fit the buffers, and a browser that does not read it then holds the
lock. The client program reads its token from one of two files in each round
and panics without one.

| Run | Bounds | Shows |
| --- | --- | --- |
| `memory` | four mails, one whose connection may break, one crash, one failed commit; two browsers and a client, two rooms, one change outside | a mailbox is its user's own, and a message is neither repeated nor lost but for the faults that are named (`MailboxInv`); whoever was answered is in his room, and a page has all who were there (`PresenceInv`); requests are answered, and a client with a good token keeps reporting, unless a stalled browser holds the lock (`AnswersCome`, `ReportsGoOn`) |

The two services share nothing: a behaviour exercises one of them, and interleaving
both would only multiply the states. Four mails are a message, a check, a second
message and a check at once with it; the second of them may break off, as a check that
takes a large message or as a store, with two requests to follow. Three participants
are enough for two to make a room that a third one fills until its page is big. The
client's two token files start in four of the nine possible pairs; the change outside
leads to the others. Mails come to an end, so this run does not check deadlock.

Fairness: handlers run, the client's loop goes round, and the mutex is strongly
fair as above. Browsers need not read: a stalled browser with a page that does
not fit (`Stuck`) is excluded from the promise, and listed as a hazard. The client's
round is fair, which assumes that its request comes to an end: it calls `http.Get`
without a timeout (`client/main.go:82`), so a gateway that takes the request and never
answers keeps the client for ever, and `ReportsGoOn` says nothing of that.

`ModulesProofs` proves both invariants, each of its own specification
(`MailSpec`, `PresenceSpec`).

- `MailboxKept`: `MailboxInv` for any users, mails, crashes, failed commits and broken
  connections.
  `MailInv` rests on the turns of a user who takes them: the request that is
  handled has the highest turn (`InTurns`), so between the fetch and the clear of
  a check nobody else changes the message (`Checking`). `Once` and `Kept` say
  where a message is at every step: in the mailbox, on its way in a handler, or
  received; a crash, a failed commit or a broken connection is the only way to have it in
  two places or in none, and only at the step that the property names.
- `PresenceKept`: `PresenceInv` for any browsers, clients and questions. `RoomInv`
  adds that only the holder of the lock is at a step with a reference, that the
  reference is the room of the id that it asked for, and that rooms of different
  ids are different maps.

Only model-checked: `AnswersCome` and `ReportsGoOn`.

## 9. What the proofs rest on

Every theorem is about its module's specification for all values of the
constants that satisfy the named `ASSUME`s of the modules it extends; TLC
evaluates these on the runs. Three have a hypothesis of their own, which is
explained there: `MappingsExact` and `NamesAreUnique` (section 3) and
`BundlesAlwaysPay` (section 7). Each invariant that was strengthened for a proof was
first checked by TLC. Facts about sequences, functions and finite sets are cited
from the library's theorem modules; nothing else is assumed.

What recursive functions compute is proved by induction on numbers, without the
library's induction theorems, whose parameter is an operator: `AllNumbers` of
`SequenceFacts` says that a set that has 0 and every next number has all numbers,
and a proof defines the set of numbers for which its claim holds. `SequenceFacts`
derives it from the well-foundedness of `<`, and by it what `FlattenSeq` computes;
the offset of a route suffix, the rounds of `Convert` and the sums of the shop are
treated in the same way.

Out of the prover's reach, and left to TLC: liveness under fairness and the fair
part of a refinement. Every invariant and every action property that a passing run
checks is proved, three under the hypotheses just named.

## 10. Findings

Each has a run whose counterexample shows it.

| Run | What happens |
| --- | --- |
| `names_of_signups` | two logins of one approved signup at the same time make two accounts with its name |
| `first_callbacks` | two first callbacks of one identity at the same time make two accounts |
| `overlapping_signups` | a signup that was answered as registered is overwritten by one that overlaps it |

Noticed while modelling, without a run:

- Gateway. A develop login (`main.go:1014`) looks for the id "1", which no account can
  have, and makes a new account each time, where `src/README.md:59` says that all
  logins are user "1". The second mapping of `setupNewUser` (`main.go:584`) can come
  back after a rotation removed it; it does not authenticate (`RevokedForGood`), but
  stays. A failed read of the foreign id index (`io.go:95`) counts as a new identity.
  The error of the name index is ignored (`main.go:397`). The map of provider secrets
  is made before their file is read (`main.go:872`).
- Relays. A WebSocket message whose sender breaks off is ended as if it were whole
  (`websocket.go:96`). `vhoster` reads a GET's reply to its end before it answers
  (`vhoster/main.go:323`), so a live stream does not get through it. The status of a
  POST is not passed on; PUT drops the error of reading its upload (`main.go:623`). A
  request whose session is not valid is answered with the login page and status 200,
  where SPEC.md:30 says "Redirects to login or shows error".
- Shop. The front end confirms purchases that were not made: an error of the call is
  ignored (`client.go:163`), a coupon is not escaped (`client.go:227`), and an order
  that JSON cannot hold is not saved (`io.go:27`). The routes of `listCoupon` and
  `deleteCoupon` lead to `createCoupon` (`controller.go:79`). A coupon's `Expiry` is
  never checked and `UsedCoupons` never set. A discount that JSON has no number for
  (`controller.go:20`) panics in the save.
- Menu. A check whose connection breaks loses the message: the error of the write is
  ignored and the mailbox cleared (`menu/main.go:114`). A stored message of one byte
  is never delivered (`menu/main.go:217`); the error of a commit is dropped
  (`menu/main.go:86`); `newToken` shares an unsynchronised source of random numbers
  (`menu/main.go:337`).

## 11. Not modelled

`redirectHandler` and its provider secrets (planned); the rewriting of log
messages, page templates and headers (`AddAuthToRequest`), which are strings;
cookie attributes, QR codes, HTTPS certificates and reading the configuration;
the entropy of tokens, which are assumed never to repeat; the camera list and
its page; the redirects that an upstream answers; overflow and rounding of the shop's
numbers; a presence client whose request never ends; the times and addresses of the
presence page and a restart of its server, which forgets the rooms; the menu's
`newToken`, whose tables nothing reads; static pages, scripts and container
files; the `ngfileserver` handlers, which have no route.

## 12. Running

`tlc -workers 2 -config MCGateway_faults.cfg MCGateway`, and likewise
`MCGateway_promise`, `_sessions`, `_names`, `_foreign` and `_signup`,
`MCCamera_viewers` and `_leaving`, `MCWebSocket_relay`,
`MCForwarding_requests`, `MCShop_visits` and `MCModules_memory`, each with the
module before the underscore. `tlapm` proves `GatewayProofs`,
`GatewayAccountProofs`, `CameraProofs`, `WebSocketProofs`, `ForwardingProofs`,
`ShopProofs`, `ModulesProofs` and `SequenceFacts`; each takes one to ten minutes.
`PROJECT.json` lists the runs, the theorems, the hazards, and for each property a
plausible bug of the code that TLC finds with it.
