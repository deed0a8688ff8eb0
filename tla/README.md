# TLA+ models of orbit-tls

orbit-tls is a Go HTTP client. It impersonates browsers through uTLS and its
HTTP/2 framing, and it returns with every response a "fingerprint" of the
connection that carried it: JA3, JA4, PeetPrint, Akamai, and the HTTP/2
settings and frames. These modules model the parts of that client with state
and concurrency. The TLC configurations check what those parts guarantee and
where they fail to.

## 1. The system: inventory

| Component | Source | State | Operations |
|---|---|---|---|
| Connection registry (`TLSTracker`, `GlobalTracker`) | `src/unnamed/part_003` 15-154 (`tracking/tls.go`) | `connections`: address -> `*ConnectionDetails`, under an RWMutex; one per process | `StoreConnection`, `GetConnection`, `GetAllConnections`, `ClearConnections` |
| Tracked dialer (`TrackedDialer`) | same, 42-130 | one `ConnectionDetails` record per `DialTLS` call | `DialTLS`, the `VerifyConnection` closure, `updateConnectionDetails` |
| HTTP/2 activity tracker | `src/tracking/http2.go` | `frames`, the aggregate `settings`, `windowSize` and `priority`, under a mutex; one per client | `TrackFrame`, the getters, the profile presets, `EstimateHeadersSize`, `ExtractHeadersList`, `GenerateAkamaiH2Fingerprint` |
| Fingerprint assembler | `part_003` 156-232, `part_000` 367-388 | none of its own: it reads the registry record and writes into it | `GenerateFingerprintData`, `generateFallbackFingerprint`, `Client.updateFingerprint` |
| Client session | `src/unnamed/part_000` | `http.Client` (transport, connection pool), its tracker, `lastFingerprint` | `New`, `Request` and the verb helpers, header application, getters |
| Facade and examples | `src/orbit.go`, `src/example/*.go` | none: `orbit.go` aliases the clients `init()` builds; each example `main` calls them one after another | the four `main` functions |
| Fingerprint codec | `part_003` 291-578 (`fingerprint/`) | none (pure functions) | `ParseJA3`, `GenerateJA4`/`JA4R`, `GeneratePeetPrint`, name lookups |
| Profiles | not in `src/` | immutable descriptors | read only |

### How the parts interact

A `Request` runs in the caller's goroutine. The transport either reuses a
pooled connection or calls `DialTLS` in a dial goroutine. `DialTLS`:

1. allocates a record with `ConnectedAt = time.Now()`;
2. runs the uTLS handshake, whose `VerifyConnection` callback writes into the record;
3. on success, stores the pointer in the process-wide registry under the address, replacing any earlier one.

After the response headers arrive, `Request` calls `updateFingerprint`, which:

1. takes a snapshot of all registry entries;
2. picks the one with the latest `ConnectedAt`, over every address;
3. writes this client's HTTP/2 aggregates into that shared record without a lock;
4. stores `GenerateFingerprintData(record)` in `c.lastFingerprint`.

`Request` then reads `c.lastFingerprint` back and attaches it to the response.
Several clients share the registry, and goroutines may call `Request` on one
client concurrently. The transport's timeout (`Client.Timeout`, 30s) abandons
the request but not the dial goroutine.

### Hard behaviours

- Interleavings of requests of one client, and of several clients, around the
  shared registry and the shared record that `updateFingerprint` selects.
- Dials finishing in a different order from the one they started in: the
  registry keeps whichever finished last, while `ConnectedAt` records the start.
- A handshake failing after the `VerifyConnection` callback has already marked
  the record complete.
- A dial that never ends: `tls.Dial` has no deadline. It races the request's timeout.
- Equal `ConnectedAt` values, resolved by Go's random map order.
- Sequences of partial SETTINGS and WINDOW_UPDATE frames.

### Properties per component

- **Registry and dialer:** a published entry is always a completed, successful
  dial to that address. Failed dials and records still being written are never
  visible. This is a refinement of `RegistryAbstract`.
- **HTTP/2 tracker:** each aggregate equals the value that the frame history
  defines.
- **Client:** every request returns. A response's fingerprint is about the
  connection that request used, assembled by that request, with HTTP/2 data
  of one client only. Every dial ends.
- **HTTP/2 session:** a client's Akamai fingerprint is its preset's, whatever
  requests it has sent; the preset is its browser family's.
- **Codec and client record:** a record falls back to the template-only
  form exactly when there are no details or the JA3 template is malformed;
  JA4's lists are in numeric order; PeetPrint decodes back to its inputs;
  `extractUserAgent` prints the value after the first key. A client's JA4
  does not carry its profile's ALPN class (a violation, below).
- **Client header layer:** the custom-header set is a case-insensitive map
  (a refinement of `HeaderStore`). Each setter call changes exactly the names
  it carries, a name is listed once, and a delete removes a name in any case.
  A custom header reaches the request unless a request header of the same
  name overrides it.
- **HTTP/2 session and fingerprint:** the pseudo-header order a Client's
  HEADERS frames carry is not the one its Akamai fingerprint names (a
  violation).
- **Examples:** every example ends; it ends through `log.Fatal` only after a
  network error; calls made one at a time get their own client's HTTP/2 data
  and their own connection's TLS record.

## 2. Modules

| Module | Models | Composes |
|---|---|---|
| `HTTP2Tracker` | `HTTP2Tracker.TrackFrame`, `extractPriority`, `NewHTTP2Tracker`, both Akamai generators (`generateAkamaiFingerprint` in `part_003`, `GenerateAkamaiH2Fingerprint` in `http2.go`) | - |
| `HTTP2Session` | one client's tracker over its life: `New` seeds it with `CreateHTTP2FrameForProfile`'s preset frames, each `Request` tracks a HEADERS frame built by `EstimateHeadersSize` and `ExtractHeadersList`; the getters as `Snapshot` | extends `HTTP2Tracker` |
| `RegistryAbstract` | the registry as its readers see it: per address, a published record or nothing | - |
| `TLSRegistry` | `TLSTracker`, `DialTLS`, the `VerifyConnection` closure, `updateConnectionDetails`, `StoreConnection`, `ClearConnections` | instantiates `RegistryAbstract` (refinement mapping `Abstract`) |
| `OrbitClient` | `Client.Request`, the transport's reuse/dial/timeout, `updateFingerprint`, `GenerateFingerprintData` | extends `TLSRegistry` |
| `FingerprintCodec` | `ParseJA3`, `parseUint16List`, `GenerateJA4`, `GenerateJA4R`, `GeneratePeetPrint`, `formatUint16Slice`, with `strings.Split`/`Join`, `strconv` and `%04x` | - |
| `ClientFingerprint` | one client's `lastFingerprint`: `New` and each `Request` end in `updateFingerprint`, which calls `GenerateFingerprintData`; the getters `GetJA4` and `GetPeetPrint` | extends `FingerprintCodec` |
| `UserAgent` | `extractUserAgent`, `findInString`, `findInStringFrom` of `basic_impersonation.go` | - |
| `Examples` | the `main` functions of `src/example`, the verb helpers' body handling and `Request`'s body-type check, over `orbit.go`'s clients | extends `OrbitClient` |
| `HeaderStore` | what a Client's custom headers promise their callers and readers: a map from lower-cased names to values. The interface variable `call` records each set, delete or clear, with the names as the caller wrote them, and each action is bound to its call's effect | - |
| `ClientHeaders` | `OrderedHeaders` and the Client's seven header setters; `Get`, `PostJSON` and `Request`'s `applyAllHeaders` with `hasUserHeaders`, `applyRequestHeaders` and `getProfileHeaders` | instantiates `HeaderStore` (refinement mapping `StoreView`, with the history variable `hcall` for `call`) |
| `MC_*` | constant definitions for TLC | extend the module they check |

### How state and actions correspond to the code

**`TLSRegistry`**

- `details[d]` is the record that dial `d` allocated; records are named by
  their dial, which models heap pointers.
- `connections[a]` is the map entry for address `a`.
- `dialState[d]` tracks where the `DialTLS` call is.
- Each step of a dial is one action:
  - `DialBegin`: the allocation and the `ConnectedAt` stamp;
  - `VerifyConnection`: the callback;
  - `DialFail`: `tls.Dial` returns an error;
  - `DialReturn`: `updateConnectionDetails` plus `StoreConnection`, published under the lock.
- `ClearConnections` is its own action, bounded by `MaxClears`. No code in
  `src/` calls it, so only `client_requests` lets it happen.
- `time.Now()` moves by a step in `ClockSteps` between dial starts: `{0, 1}`
  where dials run concurrently (equal timestamps happen), `{1}` in the
  sequential example programs (the monotonic clock strictly increases).
- TLS parameters are abstracted to `handshakeComplete` and `connectedAt`.

**`OrbitClient`**

- Each request `r` belongs to client `ReqClient[r]`. `pc[r]` is its place in `Request`.
- `conn[r]` is the connection the transport used. `owner[d]` is the client whose transport dialed `d`.
- `sel[r]` is the record that `updateFingerprint` selected.
- `lastFp[c]` is `c.lastFingerprint`; `resp[r]` is the attached fingerprint.
- A fingerprint is abstracted to where its parts came from: the request that
  assembled it (`by`), the record (`conn`), and the clients whose HTTP/2
  settings (`h2s`) and frames (`h2f`) it carries.
- The unlocked writes of `updateFingerprint` are separate actions:
  `WriteSettings` (line 381), `WriteFrames` (382-385) and `Generate` (387).
  `Respond` (360) reads `lastFingerprint` again.

**`HTTP2Tracker` and `HTTP2Session`**

- A frame keeps only the fields that `TrackFrame` and the fingerprint read:
  type, length, the Priority flag, the settings map (nil is the model value
  `NoSettings`) and the header lines, as `<<name, value>>` pairs.
- `Track(t, f)` is `TrackFrame`'s effect on a tracker state; `New` folds it
  over the preset (`FoldLeft`), as `New`'s loop at `part_000` 187-190 does.
- A request is a record of method, path, scheme, host and a set of header
  pairs. `RequestHeaders` chooses the order of the header lines among all
  orders (`SetToSeqs`): Go's map iteration order is random.
- The Akamai string `"<id>:<v>;...|<window>|<p>|m,a,p,s"` is kept as its four
  fields. `AkamaiSettingsFieldOK` is the reference definition from spec 4.1
  that the recursive `SettingsParts` is checked against.

**`Examples`**

- `Program` is a `main`'s calls in text order. A call records its client,
  its address, the body `Request` receives (`HelperBody`: Get/Delete/Head/
  Options pass nil, Post/Put/Patch pass their argument, PostJSON marshals a
  map to `[]byte`), whether an error goes to `log.Fatal` (or to
  `log.Printf; continue`), and whether `resp.Text` is sliced.
- `order` is the order the calls are made in: a loop over a Go map visits
  its clients in any order (`LoopOrders`). `next` is the next call and
  `outcome` is `"running"` or how the process ended.
- `IssueCall` starts the next call once the previous one returned;
  `RequestRejected` is `Request`'s `unsupported body type` return;
  `LogFatal`, `ShortBodyPanic` (a body shorter than the slice) and
  `MainReturns` end the process, after which nothing moves (`Ended`).
- Between calls, the dials of timed-out calls keep running (`Goroutines`).

**`FingerprintCodec`, `ClientFingerprint` and `UserAgent`**

- A string is a sequence of one-character strings. Splitting, joining,
  decimal and `%04x` rendering, `ParseUint`'s 16-bit range and Go's byte-wise
  string order (`StrLess`, used by `sort.Strings`) are therefore modelled
  by what they do. Go's 0-based index `i` is sequence position `i + 1`.
- A `ConnectionDetails` record is reduced to what the codec reads. It has a
  negotiated version (0 before the handshake), and its ALPN and
  signature-algorithm lists are empty, because no code fills them.
- `FpInit` is `New`'s `updateFingerprint` and `Request` is each later one.
  Each passes any record the registry can hold, or nil. `OrbitClient`
  models which record is chosen.
- The MD5/SHA-256 hex digests and the name tables are left out; no property
  reads them.

**`ClientHeaders`**

- `headers` is `c.headers.headers`, a sequence of `[name, value]` with
  lower-cased names. `ohSet`, `ohDel` and `ohSetPairs` are
  `OrderedHeaders.Set`, `Del` and `SetMultiple`. `strings.ToLower` and
  `CanonicalMIMEHeaderKey` are the constant tables `LowerName` and
  `Canonical`, over the names used.
- Each setter is one action. `SetHeaders` applies the map's pairs in any
  iteration order (`MapOrders`). `SetHeadersFromSlice` and
  `...FromStringSlice` apply the pairs before the first malformed element,
  then return their error (`SlicePrefix`, `LinePrefix`). `SetHeadersFromJSON`
  changes nothing when the text does not decode.
- A `[]string` line is kept as what `SplitN` and `TrimSpace` make of it. A
  JSON text is its text and its decoded map (or `BadJSON`).
- `BuildRequest` is `Request`'s header step: `sent` is the `req.Header` that
  `applyAllHeaders` builds, keyed by canonical names. `sentFrom` is a history
  variable holding the custom headers, the options and the method it was
  built from. `applyAllHeaders` returns every header the code can build,
  one for each map iteration order.
- `hcall` is a history variable: the last setter call, as the pairs it
  applied with the names as the caller wrote them (a delete's name, or
  clear). It is what `HeaderStore`'s interface variable `call` maps to,
  so the refinement binds each step to the call that made it. The
  lower-casing is then checked against the abstract `Lower`. `StoreView`
  shows a name listed twice with the marker `Repeated`, which no abstract
  step produces.
- `RequestCall` is `Get` (a map or none), `PostJSON` (which adds
  `Content-Type` unless that exact key is present), and `Request` with any
  options. `Put`, `Delete`, `Patch`, `Head` and `Options` build their
  options as `Get` does; only the method differs, and `getProfileHeaders`
  distinguishes only GET from the rest.
- The profile descriptors come from the profiles package, outside `src/`.
  The two in `MC_ClientFingerprint` (Chrome120 and Safari18, with their
  header orders and `SecHeaders`) are assumptions about that data.
  `getProfileHeaders`' name switch (Chrome/Edge 120 client hints and fetch
  headers, Firefox 121, Safari 17) is modelled from the code.

## 3. Runs

| Run | Checks | Result | Shows |
|---|---|---|---|
| `http2_tracker` | `CallerTypeOK`, `SettingsLastWriterWins`, `WindowIsLastUpdate`, `AkamaiMatchesReference`, `AkamaiFromPreset` | pass, 409,100 states | two drivers of one tracker, chosen in the initial state. Any caller of `TrackFrame`, over every sequence of up to 4 frames: the merge and window rules hold, and the Akamai field lists the present well-known settings by identifier. A Client's `New` and two requests, for all 14 profiles (2 methods, 2 paths, 2 header sets, every line order): the same rules hold over the real presets, and the HEADERS frames never change the Akamai fingerprint the preset fixes |
| `session_preset_family` | `PresetOfFamily` | violation | Firefox131, MullvadBrowser, Safari18 and SafariiOS get the Chromium preset |
| `client_requests` | `TypeOK`, `ClientRegistryRefinement`, `RequestsTerminate` | pass, 41,638 states | two concurrent requests of one client over 2 addresses, with a clear and failures after the callback, keep the registry contract (refinement of `RegistryAbstract`) and always return |
| `client_torn_http2` | `HTTP2SubRecordConsistent` | violation | two clients write their HTTP/2 data into one record; a fingerprint carries one client's settings and the other's frames |
| `client_last_fingerprint` | `ResponseCarriesOwnAssembly` | violation | two concurrent requests on one client; one response carries the other's fingerprint |
| `client_dial_hang` | `DialsEnd` | violation | a peer that stops answering leaves the dial goroutine running forever, after its request has timed out |
| `examples_sequential` | `HTTP2FromOwnSession`, `ProgramEnds` | pass, 54,394 states | `custom_headers.go`, `http_methods.go` and `basic_impersonation.go` always end, whatever the network does; in them, with up to 2 failed calls whose dials finish during later calls, every response's HTTP/2 data is its own client's, even when the selected record is another client's |
| `examples_http_methods_fatal` | `EndsEarlyOnlyOnNetworkError` | violation | with every exchange succeeding, `http_methods.go` exits through `log.Fatal`: `Put` passes a map that `Request` rejects |
| `codec_client_fingerprint` | `FullRecordIffUsable`, `JA4ListsInNumericOrder`, `PeetPrintRoundTrip`, `UserAgentAfterFirstKey`, `CustomHeadersReachRequest`, `CustomHeadersAreAMap` | pass, 111,672 states | two parts of a Client, chosen in the initial state. The record part: over 74 JA3 templates and every record `updateFingerprint` can pass: the fallback happens exactly for nil details, a wrong field count, an empty or out-of-range id; JA4's string-sorted hex lists are in numeric order; PeetPrint decodes to its inputs with empty lists as empty segments. Also, over 85 response texts, the printed user agent is the value after the first key. The header part: every sequence of setter and request calls over two profiles. The custom-header set refines `HeaderStore`, even when a map names one header in two cases: each call changes exactly its names, to a value it gives them, lists each name once, and deletes in any case. Every custom header with a value is sent, unless a request header of the same name overrides it; such a request header is sent with one of its values |
| `session_pseudo_order` | `PseudoHeadersInAkamaiOrder` | violation | a Client's first request tracks a HEADERS frame whose pseudo-headers run `:method, :path, :scheme, :authority`, while its Akamai fingerprint ends in `m,a,p,s`, which spec 4.1 defines as `:method, :authority, :path, :scheme` |
| `client_ja4_protocol` | `JA4ProtocolFromALPN` | violation | in the initial state, a client created before any dial reports an empty JA4. Spec 4.4 asks for the template's JA4, with the ALPN class `h2` of the profile's list |
| `examples_modern_own_connection` | `FingerprintFromOwnConnection` | violation | `modern_browsers.go`, one call at a time and no failure: Chrome138's loop call reuses its pooled connection and its response carries ChromeAndroid's TLS record |

Each passing property also has a mutant in `PROJECT.json`: a plausible bug in
the modelled code that makes TLC report the property violated. The mutants are:

- `UpdateWindowSum`: the window accumulates instead of being replaced (breaks `CallerTypeOK`).
- `UpdateWindowNoGuard`: a zero-length update is applied.
- `UpdateWindowAnyType`: the window is taken from a frame of any type.
- `MergeSettingsReplace`: settings are replaced, not merged.
- `SettingsPartsPrepend`: the settings parts are built in reverse.
- `NewDetailsNoTime`: `ConnectedAt` is not stamped.
- `DialBeginStores`: a record is stored before the handshake.
- `RequestTimeoutAfterDial`: the timeout does not cover the dial.
- `WriteSettingsSkipFrames`: `updateFingerprint` copies the settings but not the frames.
- `parseUint16ListNoEmpty`: an empty JA3 field is split into one empty token.
- `HexUnpadded`: ids are rendered with `%x`, not `%04x`.
- `GeneratePeetPrintSwapped`: the extension and cipher segments are swapped.
- `findInStringFromShort`: the search loop stops one position early.
- `ohSetAsWritten`: `OrderedHeaders.Set` stores the name as written, not
  lower-cased (breaks `CustomHeadersAreAMap`). A `Del` that compares the
  name as written, and a `Set` that always appends, break it as well.
- `applyAllHeadersRequestFirst`: the custom headers are applied before the
  request's own, so a custom header can override them.

`session_pseudo_order` records a divergence: `ExtractHeadersList`
(`http2.go` 175-178) emits the pseudo-headers as `:method, :path, :scheme,
:authority`, while the Akamai literal `m,a,p,s` claims the order `:method,
:authority, :path, :scheme` (spec 4.1). `AkamaiPseudoLetter` is that
letter code, taken from the spec.

A divergence no run records: `TrackFrame` looks at a HEADERS frame's
Priority flag only when the frame has a settings map, so a flagged HEADERS
frame without one never sets the priority, while spec 4.3 says it does. The
Client tracks only unflagged HEADERS frames, so no Client fingerprint is
affected. The violation runs go to divergences a Client meets.

A request with header options of its own gets only those headers and the
four defaults, not the profile's other headers. `src/README.md` ("Custom
Headers Behavior") documents this, so no property treats it as a fault.

A further divergence is recorded by `client_ja4_protocol`. `New` always
stores a record, so `GetJA4` never uses its template branch with the
profile's ALPN list. A client created before any dial reports the
fallback's empty JA4. After a request it reports the record's JA4. The
registry never fills that record's ALPN list, so its protocol tag is `d`
rather than `h2`. Spec 4.4 asks for the negotiated value where available,
else the template's. TLC reports the first case: the initial state
violates the property.

### Bounds and why they are enough

- **`HTTP2Tracker`, driven by any caller:** 2 setting keys, values {0,1},
  lengths {0,1,2}, up to 4 frames. This is enough for a key to be
  overwritten after a frame that sets another key, for a zero-length update
  to follow a non-zero one, and for every frame-type order of length 3.
- **`HTTP2Session`, driven by the Client:** the real presets and all 14
  profile names; 4 frames, i.e. two requests after New. Two header sets
  (none, and two headers) give every line order of a non-trivial header
  map. A third request adds no new case: `TrackFrame` on a HEADERS frame
  changes only the frame list.
- `MC_HTTP2Session` runs both drivers in one state space. The variable
  `driver` is fixed in the initial state and selects `SessInit`/`SessNext`
  or the tracker's `Init`/`Next`. The tracker's type invariant is checked
  for the caller only (`CallerTypeOK`), because the Client's presets carry
  six setting keys and lengths outside the caller's sample.
- **`OrbitClient`:** 2 requests and 2 dials. The passing run uses one client and
  2 addresses. The violation runs use 1 address with 2 clients, or 2 requests of
  1 client. Each counterexample needs exactly two actors and one shared record.
  A third request multiplies the state space by more than 50, so that run does
  not finish within minutes.
- **`Examples`:** the programs' real calls, clients and addresses, with one
  dial id per call. Loop orders are restricted where the clients are
  interchangeable (comments in `MC_Examples`): `http_methods.go` never
  reaches its loop; the eight clients of `basic_impersonation.go` each make
  one fresh dial to one address; in `modern_browsers.go` only where Chrome138
  and Brave138 fall among the other three matters (20 of 120 orders).
  `custom_headers.go`, `http_methods.go` and `basic_impersonation.go` form
  one instance whose initial state picks the program (`CHHMBIProgram`).
  `examples_sequential` bounds the failed calls to `MaxFailedCalls` = 2 with
  a state constraint. Without it, `basic_impersonation.go` does not finish in
  10 minutes; with 3 the run takes 7 minutes. Two failures give two dials
  outliving their calls, enough for a late record to become the latest
  while a later call selects. The constraint only cuts behaviours with a
  third failure; those behaviours are not needed for `ProgramEnds`, whose
  timeout argument is the same for every call.
- **`ClientFingerprint` and `UserAgent`:**
  - Cipher lists contain 0x000a, 0x1301 and 0xc02b: one id needs zero
    padding, and the offered order is not the numeric one.
  - Extension lists include an id of 65536.
  - Templates with version 65536, empty fields, four fields and a trailing
    `-` exercise every error path of `ParseJA3`.
  - Response texts are up to three pieces, each the key, a quote, a value
    character or the key's first three characters. That covers no key, two
    keys, an empty value, and a quote or a key at the very end.
  - The two parts are independent, so they interleave in one run.
- **`ClientHeaders`:**
  - Three names (`X-Id`, `x-id`, `User-Agent`) make two stored names, one of
    which collides with a default.
  - Values `a`, `b` and the empty one. The empty value is what makes the
    code fill a default over a custom header.
  - One map names `X-Id` and `x-id` with different values.
  - A slice and a line list each have a malformed element in the middle.
  - The JSON texts are a valid one and an undecodable one.
  - The options include `"{ }"`, which counts as user headers but adds none.
  - The request helpers also get a lower-case `content-type`.
  - Both profile kinds of the name switch appear: with and without client
    hints.
- `MC_ClientFingerprint` runs the record part (`part = "record"`) and the
  header part (`part = "headers"`) in one state space. The part not
  explored keeps a fixed initial state.

### Fairness

`Spec` assumes weak fairness of each request's `LocalStep` only. These are
the steps of the request goroutine and of the transport's own timer: the
reuse or dial decision, the 30s timeout, and the synchronous code of
`updateFingerprint`. The Go scheduler runs every runnable goroutine, and the
timer fires.

`ExSpec` adds weak fairness of `main`'s own steps (`IssueCall`, `LogFatal`,
`MainReturns`): `main` is a runnable goroutine once its call returned.
`ShortBodyPanic` is not fair: the body length is the server's choice.

No fairness is assumed of the network or the peer (`DialStep`, `ResponseRead`,
`ResponseFailed`). `RequestsTerminate` and `ProgramEnds` therefore hold
because of the timeout. `DialsEnd` fails because nothing bounds the dial.

## 4. Not modelled

- **Codec hashes and names:** the MD5 and SHA-256 hex digests, and the
  name tables `GetCipherSuiteName`, `GetExtensionName`, group and
  signature names. A digest is out of TLC's reach except as an
  uninterpreted injective function, and no property tells names apart.
  `updateConnectionDetails` never fills `ALPNProtocols`, `ClientRandom`,
  `SessionID` or `SignatureAlgorithms`, so `ClientFingerprint` fixes them
  empty.
- **Headers between the layers:** `HTTP2Session` takes a request's header
  pairs from `HeaderSets` rather than from `ClientHeaders`. The two models
  meet only in `Request`, and no property relates the header pairs to the
  HTTP/2 frame.
- **Concurrent header access:** `OrderedHeaders` has no lock, and a setter
  racing `Request` is a data race. Each setter and each request is one
  atomic step.
- **Out of scope:**
  - `DecodeHPACKHeaders`, which wraps a library, is called by nothing and
    changes no state;
  - the uTLS handshake itself, abstracted to the callback and the outcome;
  - the profiles package, which is not in `src/`;
  - `part_001` and `part_002` (further example mains): they only print.
- **Unbounded frame growth:** the frame sequence grows by one HEADERS frame
  per request, forever (a hazard in `PROJECT.json`). This is the specified
  append-only design and cannot be shown on a finite model, so `MaxFrames`
  caps it.
