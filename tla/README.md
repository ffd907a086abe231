# Verification of the time-coin wallet's network core

This directory holds TLA+ models of the network part of the time-coin desktop wallet. It covers:

- the `NetworkManager` of `src/network.rs`;
- the way `src/main.rs` of the wallet GUI drives it from a background task and shows it in the status bar.

Both Rust files exist in this repository only as text inside the Python patch scripts under `src/wallet-gui/`. Each script rewrites the Rust file with `str.replace`. The code modelled here is the text that the latest scripts install. The source line numbers in `PROJECT.json` point into those scripts.

## 1. The system

### Parts

| Part | Code (latest version) | State | Operations |
|------|----------------------|-------|------------|
| Peer discovery / registry | `fix_sync_logic.py` 31-47, `add_blockchain_fetch.py` 13-16 | `connected_peers` (ordered) | `fetch_peers()` (replace the registry), `add_peer()` for each addnode entry, `connect_to_peers(..).await?` |
| Chain-status fetcher | `add_fetch_method.py` 5-45 = `fix_peer_query.py` 36-75 | loop index, result | `fetch_blockchain_info()`: ask each peer in order for `/blockchain/info` on port 24101, 5 s timeout, return the first 2xx answer that parses, else `Err` |
| Sync state | `fix_network_methods.py` 24-56, `fix_sync_logic.py` 105-145, `fix_missing_api.py` 25-46, `debug_peer_query.py` 32-51 | `is_syncing`, `sync_progress` (0.0 / 1.0), `current_block_height`, `network_block_height` | `new()`, `bootstrap()`, `refresh_blockchain_state()` (`is_synced()` is a query, left to the status bar) |
| App integration | `fix_network_state.py` 49-74 and 153-174, `final_fix.py` 28-44, `fix_async_properly.py` 24-42, `update_status_bar.py` 28-67, `fix_missing_api.py` 84-104 | `self.network_manager: Option<Arc<Mutex<NetworkManager>>>`, the tokio task, the frame | unlock/create, the task (copy endpoint → bootstrap a temporary → swap → repaint), draw a frame |
| Peer status address | `add_fetch_method.py` 10-11 | none | `split(':').next()` of the peer address, then port 24101 |
| QR-code image | `add_svg_renderer.py` 34-50, 57-89 | pixmap, `ColorImage`, loop indices | `svg_to_image()`: parse, truncate the size, allocate, render, copy pixel by pixel; the receive screen draws the texture or a failure label |

### How they interact

When a wallet is unlocked or created and its config loads, `update()` does the following:

1. It wraps `NetworkManager::new(api_endpoint)` in an `Arc<Mutex<..>>` and stores one clone in `self.network_manager`.
2. It spawns a tokio task that holds the other clone.

The task then runs these steps:

1. It locks the Arc only to copy the endpoint.
2. It runs `bootstrap()` on a private `temp_net`.
3. On `Ok` only, it locks again and swaps the whole manager in (`*net = temp_net`).
4. Either way, it calls `request_repaint()`.

`bootstrap()` works as follows:

1. It discovers peers: from the directory, or else the addnode list.
2. It calls `fetch_blockchain_info()`.
3. It folds the answer: on `Ok`, both heights take the reported height; on `Err`, both heights are set to the sentinel 0. Either way `is_syncing` becomes false and `sync_progress` 1.0.
4. It returns `Ok(())`, unless `connect_to_peers` failed first.

The status bar locks the Arc once per frame. From that one guard it draws:

- the peer count;
- the heights, or "unknown" when 0;
- "Connected" when the peer count is positive, and "Connecting..." otherwise.

### Behaviours that make it hard to test

- **Loop outcomes.** Every peer request may fail in three ways. A client build error leaves the loop through `?`. The first good answer returns at once.
- **Tasks of two sessions.** Those of a wallet locked and re-unlocked can both be in flight. The late one still swaps into its own Arc.
- **The frame and the swap race.** The status bar reads several fields, and the task replaces them all.
- **Deadline and sentinel.** The fetch has no overall deadline. Height 0 means both "genesis" and "unknown".

`PROJECT.json` lists each hazard at its line, with the properties that cover it.

## 2. Modules

| Module | Models | Kind |
|--------|--------|------|
| `NetworkManager` | data (`Manager`, `Call`, fetch results) and every step of `bootstrap()`, `fetch_blockchain_info()` and `refresh_blockchain_state()` as operators `Call -> Call`; `BootstrapResults`, the summary of `bootstrap()` on a fresh manager | operators only |
| `ManagerCaller` | one manager and its caller: one `bootstrap()`, then refreshes, one call at a time (`&mut self`) | spec |
| `WalletApp` | sessions, the per-session Arc and tokio task, the status-bar frame | spec, uses `BootstrapResults` |
| `SyncManager` | the abstract manager: `bootstrap()` and a refresh as atomic steps | abstract spec |
| `WalletSessions` | the abstract app: sessions and their managers, with the background task hidden | abstract spec |
| `EarlyBootstrap` | the earlier `bootstrap()` revisions B1 (three `start_sync()` versions) and B2 | spec, reuses `NetworkManager`'s loop |
| `WalletAppR2` | the first app integration that compiles: the task bootstraps a manager of its own | spec |
| `PeerAddress` | the status address derived from a peer address, over character sequences | spec (constant state) |
| `SvgToImage` | `svg_to_image()` and the receive screen's use of it | spec |
| `NetworkManagerLemmas` | TLAPS lemmas about `NetworkManager`'s data and step operators (each step takes a `Call` to a `Call`) | proofs |
| `ManagerCallerProofs` | TLAPS proofs about `ManagerCaller` | proofs |
| `WalletAppProofs` | TLAPS proofs about `WalletApp` | proofs |
| `EarlyBootstrapProofs` | TLAPS proofs about bootstrap B1 in `EarlyBootstrap` | proofs |
| `ManagerRefinementProofs` | TLAPS proofs that `ManagerCaller` implements `SyncManager` | proofs |
| `MCManagerCaller`, `MCWalletApp`, `MCWalletAppR2`, `MCEarlyBootstrap`, `MCPeerAddress`, `MCSvgToImage` | model values for TLC | MC |

### NetworkManager and ManagerCaller

The variable `nm` is the call in flight. Its fields are:

- `mgr`: the manager it mutates;
- `op`: bootstrap or refresh;
- `pc`: the await point it has reached;
- `i`: the loop index;
- `asked`: the outcome of every peer asked so far, a history variable used by the properties;
- `res`: the loop's result;
- `ret`: what the call returns.

Each action ends at an `.await` or a `return`. The actions and the code they model:

- `DiscoverOk` / `DiscoverFailed`: the `match self.fetch_peers().await`.
- `ConnectFailed`: the `?` on `connect_to_peers`.
- `FetchClientFail`, `FetchPeerOk`, `FetchPeerFail`: one iteration of the loop. The failure is one of `connect`, `status`, `body`.
- `FetchExhausted`: the `Err` after the loop.
- `FoldBootstrap` / `FoldRefresh`: the `match` on the loop's result, with all its assignments, and the return.
- `StartRefresh`: a new `refresh_blockchain_state()` call, including its empty-registry early return.

### Abstractions in NetworkManager

- Peers are model values.
- `sync_progress` is kept as 0 or 1, the only values the code assigns.
- Heights come from the constant set `Heights`.
- Logging and URL formatting are left out. The `split(':')` host extraction is not modelled (see section 6).

### WalletApp

`WalletApp` has one variable per piece of shared state:

- `open`: the unlocked session;
- `netmgr`: whose Arc `self.network_manager` holds;
- `arc[s]`: the manager inside session `s`'s Arc;
- `task[s]`: the task's pc, its `temp_net` and its result;
- `repaint`: a pending `request_repaint()`;
- `shown`: the last frame's snapshot.

Each critical section (the endpoint copy, the swap, a frame's reads) holds a `std::sync::Mutex` with no await inside, so it is one atomic step.

The task's `bootstrap()` runs on a private `temp_net` that nobody else sees before the swap. It is therefore one step, `TaskBootstrap`, which picks a result from `BootstrapResults`. The run `manager_call` checks, as the invariant `BootstrapSummary`, that every `bootstrap()` of the step-by-step model returns one of these. This is how the two modules compose.

### WalletSessions and the app's refinement

`WalletSessions` says what the app promises about its network state, with the background task hidden. A session opened with a config (`OpenWithNetwork`) gets its own manager, `new()`. Later, in one step (`Connect`), that manager becomes one that a successful `bootstrap()` leaves. This happens at most once, and whether or not the session is still open. A session opened without a config (`OpenWithoutNetwork`) never connects. `Close` drops the app's reference, and `Draw` copies the referenced manager into the frame.

`WalletApp` maps to it through two sets:

- `Opened`: the tasks that left "unspawned";
- `Spawned`: the opened sessions, except a task that `UnlockNoConfig` sent to "end" without a result.

`ImplementsWalletSessions == Sess!Spec` is checked by the run `wallet_sessions`. The abstract spec states safety only. A `bootstrap()` may fail, so `Connect` is never owed.

### SyncManager and the refinement

`SyncManager` says what the manager promises its owner, with each call as one step. Its state is `mgr` and `phase` ("booting", then "ready"). `Bootstrap` turns `new()` into one of `BootstrapResults`. `Refresh` needs a non-empty registry and records one reported height in both fields, with `is_syncing` false and progress 1.0. A failed refresh is a stutter.

`ManagerCaller` maps to it through `AbsMgr` and `AbsPhase`. While `bootstrap()` runs, the owner still sees `new()`, because the task works on `temp_net`. While a refresh runs, nothing is written until its fold. `ImplementsSyncManager == Abs!Spec` is checked by `manager_call`, including `WF(Bootstrap)`.

### The earlier revisions

- **`EarlyBootstrap`.** `rev` picks the revision in `Init`. B1 runs discovery, then `start_sync()` if the registry is not empty. The versions of `start_sync()` are "stub" (no fetch), "fetch" (on `Err`, zero everything and return `Err`) and "continue" (on `Err`, go on with progress 1.0). B2 fetches directly; on `Err` it sets `is_syncing = true` and returns `Err`. The loop steps are `NetworkManager`'s.
- **`WalletAppR2`.** Unlock or create stores a fresh `NetworkManager` in `self.network_manager`. The task bootstraps `let mut net = NetworkManager::new(..)` of its own, logs, repaints and drops `net`. The status bar reads `self.network_manager` directly (`integrate_network.py` 147-166).

### PeerAddress and SvgToImage

- **`PeerAddress`.** An address is a character sequence `host ":" port`. The hosts are names and IPv4-like strings over `{a, 1, .}`, plus the bracketed IPv6 hosts `[::]`, `[::1]` and `[1::]`. `StatusHost` is the prefix before the first `:` (`SelectInSeq`), as `split(':').next()` gives it.
- **`SvgToImage`.** The bytes resvg draws are abstracted to where they come from: byte `c` of the pixel at column `px`, row `py` is `<<px, py, c>>`. `RenderedData` lays them out as tiny-skia does (rows top to bottom, 4 bytes per pixel). `CopyPixel` is the loop body with the code's offsets `(y * width + x) * 4` and `y * width + x`. The reference `Picture` nests rows instead of computing offsets. The SVG size is given in tenths, and `as u32` truncates it.

`LockWallet` is not in `src/`. It is modelled from the spec (§3, §5): session end drops `self.network_manager`, and a task in flight keeps its own clone.

## 3. Runs

| Run | Config | Expect | Checks |
|-----|--------|--------|--------|
| `manager_call` | `MCManagerCaller.cfg` | pass (321 states) | `TypeOK`, `FirstSuccessWins`, `BootstrapSummary`, `HeightOnlyFromAnswer` (action), `CallReturns` (liveness), `ImplementsSyncManager` (refinement) |
| `progress_not_held` | `MCManagerCaller_FailedBootstrapHoldsProgress.cfg` | violation | `FailedBootstrapHoldsProgress` (spec §4.3) |
| `fetch_err_early` | `MCManagerCaller_ErrOnlyAfterAllPeers.cfg` | violation | `ErrOnlyAfterAllPeers` (spec §4.2/§7) |
| `wallet_app` | `MCWalletApp.cfg` | pass (6,365 states) | `ShownIsOwnResult`, `PublishedIsShown` (liveness) |
| `wallet_sessions` | `MCWalletApp_Sessions.cfg` | pass (6,365 states) | `ImplementsWalletSessions` (refinement) |
| `stuck_connecting` | `MCWalletApp_EventuallyLeavesConnecting.cfg` | violation | `EventuallyLeavesConnecting` (spec §4.3/§7) |
| `r2_result_dropped` | `MCWalletAppR2_BootstrapReachesScreen.cfg` | violation | `BootstrapReachesScreen` (spec §2/§4.3) |
| `early_bootstrap` | `MCEarlyBootstrap.cfg` | pass (228 states) | `BootstrapEndsNotSyncing`, `HeightsAgree` for B1 |
| `b2_still_syncing` | `MCEarlyBootstrap_BootstrapEndsNotSyncing.cfg` | violation | `BootstrapEndsNotSyncing` for B2 |
| `ipv6_status_host` | `MCPeerAddress_StatusAddressFromHost.cfg` | violation | `StatusAddressFromHost` (spec §4.2/§5) |
| `svg_to_image` | `MCSvgToImage.cfg` | pass (269 states) | `ImageIsPicture` |

What the properties say:

- **`FirstSuccessWins`.** A result handed to the fold comes from the only peer that answered well, and that peer was the last one asked. An `Err` means no peer asked answered well.
- **`HeightOnlyFromAnswer`.** The heights move only in the fold of a successful fetch, and then to the reported height. A failed refresh keeps its heights.
- **`CallReturns`.** Every `bootstrap()`/`refresh_blockchain_state()` returns, whatever the peers do.
- **`ShownIsOwnResult`.** A frame shows either a fresh manager, or exactly the manager that this session's own task bootstrapped and swapped in. It never shows a mix of two updates, and never the result of another session's late task.
- **`PublishedIsShown`.** A swapped-in manager reaches the screen unless the wallet is locked first.
- **`ImplementsWalletSessions`.** A session's manager changes only in its own task's swap, from `new()` to a successful bootstrap result, at most once, and only if the session was unlocked with a config. The task's other steps, a failed bootstrap and the repaint are invisible to the app. A task that swapped into whatever `self.network_manager` holds now would break this when a second session is open.
- **`ImplementsSyncManager`.** Seen between calls, the manager goes from `new()` to a bootstrap result, and then changes only by a refresh that records a reported height in both fields. The registry never changes after bootstrap, and bootstrap returns.
- **`BootstrapEndsNotSyncing`, `HeightsAgree`.** A returned B1 bootstrap has `is_syncing` false and equal heights, on every path through discovery, `start_sync()` and the fold.
- **`ImageIsPicture`.** When `svg_to_image` returns `Ok`, pixel (x, y) of the `ColorImage` holds the four bytes of pixmap pixel (x, y). The screen draws that image or the failure label.

Each property of a passing run has a mutant in `PROJECT.json`: a plausible slip in the mapped code, which the run then catches. The slips are a missing `return`, a fetch that starts over instead of failing, `sync_progress` written as a percentage (100.0) rather than a fraction, the old `is_syncing = true` fold, a refresh that zeroes heights, a swap into the current rather than the task's own Arc, and a forgotten `request_repaint()`. The newer ones are a refresh that records only the network height, a `start_sync()` error arm that leaves `is_syncing` set, an `Ok` arm that records only one height, and a row stride taken from the height.

### Bounds

- Three peers and a two-entry addnode list.
- A directory that answers an empty list or a two-peer list.
- Heights {0, 1}: 0 is the sentinel and genesis, 1 is a real height.
- Two sessions in `MCWalletApp` and `MCWalletAppR2`.
- `MCEarlyBootstrap`: the three B1 revisions in one run (B2 in its own run), with the same peers and heights.
- `MCPeerAddress`: every host of up to 3 characters over `{a, 1, .}` and three IPv6 hosts, with ports of up to 2 digits.
- `MCSvgToImage`: each side is 0, 0.5, 1, 2 or 2.5 units. This covers zero sides, truncation, and square and non-square images up to 2 x 2 pixels.

Why these bounds are enough:

- Both discovery branches and the registry sizes 0 and 2 are reached.
- The loop's early return, its failure paths and exhaustion are each reached.
- A second session exists while the first one's task is still running. This is the only way two Arcs coexist.
- A wrong row stride shows on a 2 x 1 image, which is the smallest one that is not square.
- Larger sets only repeat these cases with other model values.

No symmetry reduction is used, because the specs have liveness properties.

### Fairness

- **`ManagerCaller`.** `WF(CallStep)`: the tokio runtime keeps polling a spawned future, and each request is bounded by the client's 5 s timeout. Starting a refresh is the caller's choice and gets no fairness.
- **`SyncManager`.** `WF(Bootstrap)`: the spawned `bootstrap()` returns, for the reasons above.
- **`EarlyBootstrap`.** `WF(Next)`: the only call is the bootstrap in flight. The run stops when it returns, so deadlock checking is off there.
- **`WalletApp`, `WalletAppR2`.** `WF(TaskStep(s))` holds for each task, for the same reason. `WF(repaint /\ Render)` holds because eframe draws a frame after `request_repaint()`. Unlock and lock are user actions and get no fairness.

## 4. Findings

1. **`fetch_err_early`** (`add_fetch_method.py:18`). The HTTP client is built inside the loop with `?`, so one build error fails the fetch before any peer is tried. The spec says a per-peer failure is never fatal.
2. **`stuck_connecting`** (`add_blockchain_fetch.py:14`). If `connect_to_peers` fails, `bootstrap()` returns `Err` and the task swaps nothing in. Nothing retries, so the status bar stays on "Connecting..." with 0 peers for the whole session.
3. **`progress_not_held`** (`debug_peer_query.py:47`). When the chain-status fetch fails, `bootstrap()` sets `sync_progress = 1.0`. The spec says progress is held at its prior value, which is 0 on a fresh manager.
4. **`r2_result_dropped`** (`fix_network_integration.py:51`). In the first integration that compiles, the task bootstraps a manager of its own and drops it. The status bar never shows the bootstrap's peers or height. Later revisions swap the result into a shared Arc.
5. **`b2_still_syncing`** (`fix_sync_logic.py:60`). Revision B2 sets `is_syncing = true` on a failed fetch and returns `Err`. Nothing in that revision clears the flag on the manager it leaves; the spec says a failed fetch leaves it false. No integration that compiles shows this on screen (R2 drops its manager, and the final task swaps only on `Ok`). The final revision sets it false.
6. **`ipv6_status_host`** (`add_fetch_method.py:10`). For `[::1]:8333`, `split(':').next()` is `[`. The URL `http://[:24101/..` cannot be sent, so such a peer is never asked.

## 5. Proofs (TLAPS)

`NetworkManagerLemmas` holds the facts about `NetworkManager`'s operators that the callers' proofs share. Each step operator maps a `Call` to a `Call`. Each proof is a chain of one-field updates (`SetMgr`, `SetPc`, `SetI`, `SetRes`, `SetAsked`, `SetRet`) over the manager lemmas `SetPeersType` and `FoldType`. `ManagerCallerProofs` and `EarlyBootstrapProofs` both extend it.

`ManagerCallerProofs` proves three theorems for every value of the constants allowed by `ConstantsAssumption`. The assumption is that `BootNodes` and every directory answer are sequences of peers, and that `Heights \subseteq Nat`.

- **`TypeCorrect`: `Spec => []TypeOK`.** Each step of `ManagerCaller` applies one of the step operators of `NetworkManagerLemmas`.
- **`FirstSuccessWinsHolds`: `Spec => []FirstSuccessWins`.** The invariant alone is not inductive: a step into the fold needs to know what the loop has asked so far. The strengthening `IInv == TypeOK /\ LoopInv /\ FirstSuccessWins` adds `LoopInv`: while the loop runs it has asked exactly the peers before position `i`, none of them well, and `i <= Len(peers)+1`. Within a success the number of peers asked is at most the length of the registry.
- **`HeightOnlyFromAnswerHolds`: `Spec => [][HeightFromAnswer]_vars`.** The Err fold of `bootstrap()` writes 0 to both heights. That is not a change only because a bootstrap runs on `NetworkManager::new()`. The proof therefore rests on `BootHeightsZero`: a bootstrap in flight has both heights 0.

`ManagerRefinementProofs` extends `ManagerCallerProofs` and proves two more theorems.

- **`BootstrapSummaryHolds`: `Spec => []BootstrapSummary`.** This holds for every registry and height set. `BootstrapSummary` is not inductive: the fold needs to know that the manager of a bootstrap in flight is still the one discovery left. The strengthening is `RInv == IInv /\ BootShape /\ BootstrapSummary`. `BootShape` says three things. A call at discovery is a bootstrap with an empty registry. During a bootstrap the manager has `is_syncing` false, progress 0 and both heights 0. Once discovery is done, its registry is in `Registries`. Lemmas `LoopStepKeeps` and `RefreshStepKeeps` show that the loop and refresh steps keep the shape. `BootFoldResult` shows that each fold lands in `BootstrapResults`.
- **`RefinementHolds`: `Spec => Abs!SafetySpec`.** `ManagerCaller` implements the safety part of `SyncManager`. `Init` maps to `Abs!Init`. Under `RInv`, every step maps to a `SyncManager` step or a stutter (`RefineStep`):
  - a loop step or a bootstrap in flight stutters (`InnerStepStutters`);
  - the bootstrap fold is `Bootstrap`, by `BootstrapSummary`;
  - a successful refresh fold is `Refresh` (`RefreshUpdatedSynced`);
  - a failed refresh and the start of a refresh stutter.

  `AbsResults` shows that the instance's `BootstrapResults` is the module's own.

`WalletAppProofs` proves three theorems for every set of sessions. It rests on `ConstantsAssumption` and on `SessionsAssumption` (`NoSession` is not a session id).

- **`TypeCorrect`: `Spec => []TypeOK`.** `TaskPcUpdate` says what moving one task to another await point does to the task map.
- **`ShownIsOwnResultHolds`: `Spec => []ShownIsOwnResult`.** `ShownIsOwnResult` is not inductive. `Render` copies `arc[netmgr]` into the frame, so the proof must know what every Arc may hold, not only the one on screen. The strengthening adds `ArcIsOwnResult`: every session's Arc holds `New` or the `temp_net` its own task bootstrapped with `Ok` and then swapped in, and a task waits to swap only with an `Ok`. Each task step keeps this:
  - `Unlock` resets the Arc to `New`;
  - `TaskBootstrap` runs while the Arc still holds `New`;
  - `Publish` writes the task's own `tmp`, whose result is `Ok`;
  - `Render` copies a whole Arc under one guard.
- **`SessionsRefinementHolds`: `Spec => ImplementsWalletSessions`.** `WalletApp` implements `WalletSessions`. The proof needs more than `IInv`, so the invariant is `RInv == IInv /\ TaskShape`. TLC checked `RInv` on the two-session instance before the proof. `TaskShape` says three things:
  - an Arc holds `New` until its task's swap;
  - a task has no result before `bootstrap()` and has one after it, so the only task that reaches "end" without a result is one sent there by `UnlockNoConfig`;
  - a task about to swap holds a manager that a successful `bootstrap()` left (`OkResultConnected`);

  `RefStep` maps `Unlock` and `UnlockNoConfig` to the two opens, `Publish` to `Connect`, `LockWallet` to `Close` and `Render` to `Draw`. The other task steps are stutters, because `SetsKept` shows that they leave `Opened` and `Spawned` as they were.

`EarlyBootstrapProofs` proves three theorems.

- **`TypeCorrect`.** This holds for every revision, B2 included.
- **`B1EndsNotSyncing` and `B1HeightsAgree`.** Their hypothesis is `Revisions \subseteq B1Revisions`. The theorems state it, rather than an `ASSUME`, because the `b2_still_syncing` run uses B2. Neither property is inductive at the return alone. The strengthening `B1Inv` says three things: the revision is a B1 one; the two heights agree in every state, since no B1 step writes one without the other; and `is_syncing` is false while the call is at discovery. The last point is needed because B1 skips `start_sync()` on an empty registry and returns with the flag as discovery left it. `AfterDiscoveryB1` and `FoldB1` cover the code between discovery and the first fetch, and the two fold arms.

  The proof found that the arms of `AfterDiscovery`'s `CASE` overlapped. For an empty registry under the "stub" version, both the skip arm and the stub arm were true. TLA+'s `CASE` then picks either, although TLC takes the first and the code's `if !connected_peers.is_empty()` always skips. The arms are now disjoint, as the code's `if` is. The runs are unchanged.

Only TLC checks the following:

- **Liveness** (`CallReturns`, `PublishedIsShown`, the fairness part of `ImplementsSyncManager`). TLAPS does not handle fairness and `ENABLED` here.
- **B2's violation** (`b2_still_syncing`). It is a counterexample, so TLC's trace is the evidence.
- **`SvgToImage` and `PeerAddress`.** These are checked on the bounded instances above. `SvgToImage`'s reference picture uses `FlattenSeq`. What a fold over sequences computes for every input is an induction over data, and the provers cannot instantiate the library's induction theorems. `PeerAddress` reasons about strings spelled as character sequences, so it is in the same position.

## 6. Not modelled

- **Superseded revisions that do not compile.** These are the first integration (`integrate_network.py`, which uses `network_mgr` after moving it into the task), the task that held the mutex guard across `bootstrap().await` (`fix_network_state.py` 61-73, `fix_async_mutex.py` 5-17), and the `if let Ok(temp_net) = result` swap that `manual_fix.py` deletes. A guard held across `.await` is not `Send`, so `tokio::spawn` rejects it. A deadlock of the UI thread on that guard therefore cannot occur in a build, and the project lists no hazard for it.
- **Which replacements took effect.** The base Rust files the scripts were applied to are not in the repository. `str.replace` is a silent no-op on a miss, so this cannot be modelled.
- **Other parts.** These are the QR SVG generation and its text-art and colour variants (pure rendering), `calc_genesis_hash.py` (a hash) and the `test_*.py` probe scripts (live HTTP and port probes). None of them has state to model.

## 7. Plan for the next sittings

1. Compose the two refinements. Instantiate `SyncManager` for a session's Arc inside `WalletSessions`, so that `Connect` is `SyncManager`'s `Bootstrap` with an `Ok` result.
2. Refresh running concurrently with a task swap, if a caller of `refresh_blockchain_state()` appears. No script calls it today.
