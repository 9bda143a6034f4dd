# Specifications of proton-sdk-rs

TLA+ models of `proton-sdk` (the HTTP, session, account and cache layers) and
`proton-drive-rs` (the Drive client), model-checked with TLC; all the safety
properties are also proved with TLAPS, for every value of the bounds. The reference
is always the code; every definition that stands for code is listed with its
lines in `PROJECT.json` under `map`.

## 1. The system

An application holds one `ProtonDriveClient`, clones it freely and calls it from
many async tasks. Any call may be dropped at any await. Under it lies one
`ApiHttpClient` per session. Other clients of the same account, and other users,
change the tree at the server meanwhile; the client learns of it by events, and
keeps caches of what it has read.

| Component | State | Operations | What is hard | What makes it correct |
|---|---|---|---|---|
| API calls and token refresh (`http.rs`, `session.rs`) | token pair, refresh mutex, persisting callback | `send`, `handle_unauthorized`, `refresh_access_token`, `resume` | concurrent 401s, dropped callers, lost answers of a single-use refresh, restart | a refresh token is spent once; client, store and server agree |
| Retry policy (`http.rs`, `config.rs`) | loop counter | `send_retrying`, `send_unrepeatable` | a request that failed may have been applied, or may still arrive | what acts twice, and when |
| Login (`session.rs`) | the session's scopes and waiting flag | `begin`, `begin_verified`, `apply_second_factor_code`, `refresh_scopes`, `end`, `resume` | lost answers; resume from parameters of an earlier stage | the session knows what it may do |
| Account (`account.rs`) | lazily filled salts, passphrases, keys, addresses, public keys | `unlock`, `addresses`, `default_address`, `address_private_keys`, `public_keys` | overlapping loads of a changing account; errors that are remembered | the right address signs |
| Cache repositories (`cache.rs` of both crates) | LRU map, two tag indexes, sealed values | `set`, `get`, `get_by_tags`, `remove*`, `clear` | eviction, clean-up in a later step | a tagged store that may only forget |
| Single-flight (`single_flight.rs`) | map of shared loads | `run` | joining, finishing and clearing interleave; callers vanish | no lost waiter, results not older than promised |
| Event manager (`event_manager.rs`, `client.rs`) | cursor, its store | `resolve_start_cursor`, `run`, `enumerate_events`, `invalidate_caches_for_event` | crash between apply and save, failed pages, lost continuity | no event skipped, caches converge |
| Node caches and key resolution (`client.rs`) | folder keys (memory), entities (persistent) | `get_node`, `enumerate_nodes`, `resolve_parent_key_walk`, `folder_node_key` | walks that straddle moves and invalidations | a readable node is read, with its own key |
| Paths and listings (`client.rs`) | none in the client | `create_folder_path`, `get_available_name`, the paged listings | races for a name; lists that change between pages | one path, one folder; nothing listed twice or left out |
| Bootstrap (`client.rs`) | My Files and Photos, a mutex each | `ensure_my_files`, `ensure_photos`, `create_volume` | concurrent first use, creations given up on | no volume beside an active one |
| Context-share cache (`client.rs`) | cache, read-write gate | `context_share_id`, `run_context_share_mutation` | lookups, moves and events on one gate; detached mutation | a cleared mapping never returns |
| Transfers (`client.rs`, `revision.rs`) | permit pool, channel, windows | `write_blocks`, `write_content_blocks`, `read_at` | a bounded pool shared by pipelines that hold while they wait | exact permits, no deadlock, order |
| Block posts (`client.rs`) | limiter, downshift flag | `upload_batch`, `upload_one_block` | timeout while others wait, expiring tokens | one at a time after a timeout |
| Block URLs and link session (`revision.rs`, `transport.rs`, `public_link.rs`) | URL table and session, each with a generation and a mutex | `ciphertext`, `refresh`, `list_blocks`, `renew` | bursts of expiries, nested mutexes | renewed once, never retried stale |
| Revisions (`client.rs`, `revision.rs`, `transport.rs`) | a reader: pinned revision, ranked sizes | `open_revision*`, `read_at`, `download_*`, `restore_revision`, `delete_revision` | the active revision changes between two requests; sizes recorded by others | the bytes of the range asked for |
| Thumbnails (`client.rs`, `public_link.rs`) | outcomes of a batch | `enumerate_thumbnails*` | answers that overlap, repeat or leave out | one outcome for each file |
| Upload protocol (`client.rs`) | the server's draft and revisions | `upload_file*`, `upload_new_revision*`, `upload_photo_from`, `seal_revision` | rival clients, lost answers, late copies | success means committed; foreign drafts are safe |
| Moves, trash (`client.rs`) | the batch queue, hashes from a cache | `rename_node`, `move_node`, `copy_node`, `move_nodes`, `trash_nodes`, ... | stale hashes, retries, rivals | outcomes tell the truth; a rival's name survives |
| Albums and photos (`client.rs`, `photos.rs`) | queue of photos, those already retried | `add_photos_to_album`, `save_photos_to_timeline`, `delete_album*`, `find_photo_duplicates*`, ... | groups that must travel together, an album that changes while it is deleted | every photo reported; none lost |
| Sharing (`client.rs`, `sharing.rs`) | none but cached public keys | `share_node`, `invite_*`, `*_public_link`, `accept_invitation`, ... | lists read one after the other, links edited by two calls | nobody invited again; handed URLs open |
| Visitor of a public link (`public_link.rs`) | session, proofs | `info`, `open`, `enumerate_*`, `reauth` | a tree that moves under a crawl; the owner changes the password | what stayed in place is found once |
| Devices (`client.rs`, `devices.rs`) | none | `create_device`, `rename_device`, ... | two packets of one name, two clients | a name stays readable |

Interactions: every operation sends through the HTTP layer and inherits its
retries (`FileUpload` models what that does to uploads); the event manager and
the context-share gate meet in `invalidate_caches_for_event`; uploads and
downloads meet in the permit pool; a download's fetches go through the URL table
and, for a public link, its session; moves and renames read hashes from the
entity cache, and sharing reads the account's cached public keys.

What is hard to test, line by line, is listed in `PROJECT.json` under `hazards`,
each with the properties that would catch it.

## 2. The modules

| Module | Models |
|---|---|
| `TokenRefresh` | calls, refresh tasks, callback, restart; a token pair is its generation number |
| `SendRetrying` | one request under the retry loop |
| `Login` | one application's logins: SRP exchange by its number, verification gate, second factor, scopes, save and resume |
| `HttpClient` | the three |
| `EventSync` | event log, manager, the two node caches and their readers |
| `SingleFlight` | `run` for one key |
| `CacheStore` | the three layers of a cache repository |
| `TagCache` | the abstract specification: what the trait promises |
| `EntityCache` | `EventSync`, `SingleFlight` and `CacheStore` |
| `ContextShare` | cache, gate (FIFO read-write lock), lookups, mutations, events |
| `BlockTargets` | block fetches, URL tables, session renewal |
| `BlockUpload` | the posts of one batch |
| `BlockSlots` | the pool, a FIFO semaphore |
| `UploadPipeline`, `DownloadWindow` | the two kinds of transfer over `BlockSlots` |
| `Transfers` | their composition over one pool |
| `SharedState`, `MCSharedState` | `ContextShare`, `BlockTargets`, `BlockUpload` and `Transfers`, and the instance that is checked |
| `KeyWalk`, `MCKeyWalk` | `get_node` and `enumerate_nodes` down to the walk over the parents; the tree, two caches, grants of shares |
| `Bootstrap` | first calls, the two mutexes, volumes and late creations |
| `FolderPath` | `create_folder_path`, `get_node_by_path`, `create_folder`, `get_available_name` against one folder tree |
| `Paging` | the three styles of listing (server anchor, own anchor, page number) over a changing list |
| `Visitor` | opening a link, sessions, the level-by-level crawl with its key requests |
| `Thumbnails` | chunks, answers, block downloads, the final sweep |
| `Revisions` | revisions of a file, readers, `rank_block_sizes`, `plan_blocks` and `splice_block` |
| `PhotoLookup` | duplicate and name lookups in chunks |
| `Account` | the account's lazily filled caches and overlapping calls |
| `NodeReads`, `MCNodeReads` | the nine above, and the instance that is checked |
| `FileUpload` | several uploads of one name against the server |
| `NodeMoves` | renames, moves, copies, batches, trash |
| `Albums` | transfers, removal, deletion, covers, tags |
| `Sharing` | share, entries, public link, cached keys; calls of two owners, request by request |
| `Devices` | two clients' device calls |
| `NodeWrites`, `MCNodeWrites` | the five above, and the instance that is checked |
| `Selections` | orderings of a set, and what sorts and filters leave of a sequence, said by what comes out |
| `HttpClientProofs`, `EntityCacheProofs`, `SharedStateProofs`, `TransfersProofs`, `NodeReadsProofs`, `NodeWritesProofs` | theorems and proofs about each composition and its parts |
| `ListingProofs` | the same about the parts of `NodeReads` that list: `Paging`, `PhotoLookup`, `Visitor` |
| `OrderLemmas` | what they use of sets of numbers, of counting in and picking from sequences, and of what is computed step by step |

State and actions. A variable carries the name of the field or local it stands
for where there is one; `pc`-like variables give the await a task stands at. An
action is the code between two awaits; so the interleavings of the runtime are those of
the model, except where awaits in a row are merged into one step: the chunks of the
link lookup of a move, and the keys awaited before its hash is read (`NodeMoves`);
the pages of a folder's children where they are listed for a name (`FolderPath`;
`Paging` has them one by one); and in `KeyWalk` the requests of the calls beside the
one that is followed, which appear as changes of tree and caches. A dropped future is an action of its own (`Cancel`,
`Drop`, `Abort`, `Abandon`, `Quit`), possible wherever the code awaits; what the
code has spawned is not dropped with it. Variables marked *history* only record
what happened, for the properties. Definitions named as mutants are the
plausible bugs against which each property was tried (`PROJECT.json`,
`mutants`); no specification uses them.

### Composition

`Transfers` is a real composition: both kinds of transfer contend for the pool.

`HttpClient`, `EntityCache`, `SharedState`, `NodeReads` and `NodeWrites` put
parts side by side that share no variable: what one is given by another (a key,
an address, an answer) it takes as given, failing or stale. A behaviour of such
a composition is an interleaving of one behaviour of each part, so each part is
explored in full while the others rest in one of their initial states (the
variable `moving` says which). What one part leaves in a state the other reads is
inside the part that reads it: the entity cache's parents in `KeyWalk` and its
hashes in `NodeMoves` may be as old as `EventSync` shows they can be, and the
cached public keys are in `Sharing`.

### Refinement

`CacheStore` implements `TagCache`: the map, the two indexes, the seal and the
parser, seen through the mapping in `CacheStore`, are a store of tagged values
that may forget and answers with nothing but what was last stored
(`ImplementsTagCache`, part of `StoreSound`). A client built with another key
over the same store sees nothing of the old entries, which is a forgetting step.

### What is external

Code outside the repository is modelled from its use, and marked external in the
map:

* the API server. Refresh: an unspent token rotates the pair, a spent one is
  refused. Events: a log, pages of it, and a `Refresh` page for a cursor it no
  longer serves. Uploads: one open draft per file; a draft or small upload is
  taken only when no draft is open and the base is the active version; a taken name
  and an open draft are answered `AlreadyExists`, an outdated base of a small upload
  with that code or with another one; a sealed draft cannot be deleted as one. A
  creation by this client of a name that is taken in the folder is refused, which
  `create_folder_path` relies on when it tries a failed creation as a lookup; a
  folder may hold several entries of one name all the same (`client.rs:1042`), which
  other clients put there, and the first listed wins. A rename or move is refused
  when the original hash is not the node's. An answer to a batch may leave items
  out, dealt with or not. A transfer of photos brings in the related photos that are
  sent along. It takes every creation of a volume: the client is not
  to rely on a refusal. The rename of a device keeps the key packet;
* other clients and users, who move, rename, delete, grant, accept and edit;
* the network: a request whose answer was lost may have been applied, may be
  applied later, or never;
* tokio: `Semaphore`, `Mutex` and `RwLock` serve waiters in order; `JoinHandle`s
  outlive the tasks that spawned them; `Shared` futures move while polled.

## 3. The runs

Each run is one module and one configuration.

| Run | Bounds | Distinct states |
|---|---|---|
| `http_client` | two refreshing calls and one that does not refresh, one connection retry, three generations; three loop retries; two logins, one lost answer | 47 000 |
| `entity_cache` | one node, one reader, two events of one per page, one failure, one crash, first start and resumed start; three callers, three loads; three keys in a store of two, three writes | 336 000 |
| `shared_state` | two lookups, one mutation, the event manager, two versions; three fetches over two tables and one session, one death of each, one spurious denial; three jobs, width three, two attempts; one upload of up to four blocks and thumbnails, one download of up to two, pools of one and two, windows of two, channel of one | 212 000 |
| `node_reads` | a tree of three roots, a folder and a node, two changes; three openers, four opens, two slips; two makers of a path of two, a chooser and a seeker; five rows in pages of two, two changes; five links, two upsets; lists of up to three pictures, some with a repetition, in chunks of two; three revisions; two stored photos in chunks of one; two account calls, one edit | 2.6 million |
| `node_writes` | two uploads with every combination of kind, session, override and size, two draft attempts, two lost answers; two nodes, two folders, two calls, one rival; five photos with two of another volume, chunks of two, one meddling; two owners, two spellings of one address, two calls, one failed lookup; two clients, two devices, three calls, one failure | 2.2 million |

Why they are enough: each property that could fail does so in the mutants within
these bounds, with two or three actors. Two calls suffice to race on a refresh,
and three generations let a late answer meet a second rotation. Two events show
an event applied between another and its save. A pool of one is the tightest,
a pool of two lets upload and download hold permits at once, and four blocks pass
through window, channel and batch in several rounds; for larger pools, which exceed
the windows, there are the theorems. A tree with several roots and two levels, changed twice,
lets a walk meet a cached key, a run of cached parents, a move and an exchange
of folder and child; three revisions let a restore become active under a reader. Every list is longer than
one page, chunk or batch, so that something happens between two of them, and
every list has a full last page in some state. In `node_reads` the folder starts
under the device's root or the shared root, so a walk that starts under My Files
is met only after a move, and there are two account calls; in `node_writes` there
is one public link and two calls, so that an update never meets a link removed and
made anew. The theorems `KeysAlwaysResolved`, `DefaultAlwaysLowest` and
`HandedUrlsAlwaysOpen`, like all of section 5, have no such bounds.

Deadlock is not checked: every model stops when its bounded calls have been
made, as the program does when nobody calls it. That nobody waits for ever is
stated as liveness instead.

### Properties

*Tokens.* `NoTokenReuse`, `InSync`, `ResentIsNewer`, `RotatedOnlyWhenExpired`,
`PersistedMonotone` (safety), `CallsServed` (liveness). The
exception in the first two, an *abandoned* answer, is real: when the client
gives up on a refresh that the server has performed, the new pair is lost, and
no client-side rule can help.

*Retries.* `ActsAgainOnlyInDoubt`: a write acts twice only after a timeout or a
retryable status, the refresh request never. This goes beyond the comment on
`Replay::Unsafe` (`http.rs:822`), which mentions timeouts only; `send_retrying`
repeats a write after a 408, 429, 502, 503 or 504 as well.

*Login.* `WaitingIsKnown`. A session resumed while it waits reports no
second-factor methods (`session.rs:101`), so the application must have kept them.

*Events and loads.* `NoEventSkipped`, `StaleHasCause`, `CachesConverge`,
`StaleNeedsOverlap`, `EveryCallerServed`, and `StoreSound` for the
repository below. The causes for a stale entry are
exactly three: a fetch under way during the invalidation, a failed cache
repository, a seed. A failing `CursorStore::load` also leads to a seed
(`event_manager.rs:179`) and then drops what changed while the process was down,
which the comment on `CursorStore` does not mention.

*What calls share.* `CacheNotBehind`, `LookupFresh`, `ExcludedDuringMutation`
for the gate; `RenewedOnce` for tables and sessions;
`RetriesBehave` for the posts of a batch; `NobodyWaitsForever` for these three.
For transfers `BlocksAccounted`, `WrittenInOrder`, `EveryTransferEnds`. `loose`
and `detached` record buffers of blocking tasks that outlive a dropped transfer:
they hold memory without a permit until they end, which no property forbids.

*Reads.* `KeysResolved`: a call that ends has failed only for a cause, and a
folder's key is kept under that folder only; that a walk ends is another matter, see
`key_walk_climb`. `NeverBesideActive`: no second volume, unless a
creation of unknown outcome was given up on or another client was faster.
`OnePathOneFolder`: while nothing is removed, a `create_folder_path` that succeeds
ends where its path leads, and two of them in the same folder unless another client
put a second entry of one name there; then each goes into the one it lists first,
and these may differ. `ListedOnce`, with the exception of the trash, whose pages are counted and shift.
`CrawlComplete`, except below a folder whose key request failed, which the code
skips with a warning in the log. `OneOutcomeEach`: every file asked about has an
outcome, and at most one for each time it was listed (targets are kept by block id,
so a file listed twice and found has one; found missing it has two). `ReadsAreSlices`, for readers
of the owner and the visitor, unless sizes had to be inferred for blocks that are
not full. `EachInputAnswered`. `DefaultIsLowest`: exempt is
only a call between whose list and whose look at `default_failed` another call
stored a different list; `account_default` shows what may happen then.

*Writes.* `UploadsSound`: success means committed, a draft commits once, drafts
of others are kept. `OutcomeTellsTruth` and `RivalNameKept` for batches; the
second has an exception that the code has, too. The links are fetched first, and the
hash is read later, from the cache if it has one: a first attempt whose cached hash
is not that of the fetched link, because it is older, or because another task read
the node after a rival's rename, is accepted by a server that has that hash, and
puts the fetched name back. `TransferReported`: every photo once for each time it
was given, ok only if it was brought in; a photo brought in is reported ok unless it
came in as related to another one, its request was sent twice by the HTTP layer, or
the answer to its copy was lost, all of which the code reports as failures.
`PhotosSurvive`. `InviteesAreNew`: the lists are read
in the order in which an invitee moves through them. `HandedUrlsOpen`.
`DeviceNamesOpen`.

### Runs that show a disagreement

Seven runs state what a comment says and find it violated by what the code does;
the comments are quoted in `PROJECT.json` under `findings`.

* `file_upload_once`: a small upload goes through `post_multipart`, whose retry
  loop repeats it; a repetition after an applied first copy may be answered
  `AlreadyExists`, and the fall-back commits a revision's content again. (If the
  server has another code for an outdated base, the call fails instead, although
  the content was committed.)
* `single_flight_one`: a caller of a finished load clears the slot of a newer
  one; two loads of one key then run together.
* `event_sync_hit`: a fetch that straddles an invalidation puts the old node
  back, so a hit can be older than the last event poll.
* `key_walk_climb`: with parents in the entity cache from before two folders
  changed places, the walk is led back to an ancestor it has fetched. Keys are
  cached only after the loop (`client.rs:7528-7551`), so each round finds what the
  one before found, and the walk goes on until the tree or a cache changes or a
  request fails. The property says so without a count: no set of folders without
  cached keys is closed under the loop's step. (`MaxAncestry` cuts such a walk off
  in the model.)
* `account_default`: two loads of the addresses overlap a change of the account;
  the call that loaded first reads the `default_failed` of the other and hands out
  the next address.
* `node_moves_hash`: neither a move nor a rename removes the node from the entity
  cache, and the next rename sends the hash found there: it is refused until the
  event of the move has been applied.
* `sharing_packet`: a failed lookup of public keys is cached as "no keys", and a
  Proton user is invited as an external one by every later call.

## 4. Fairness

Weak fairness only, and only on the program's own steps: a live future is polled
by the runtime, a spawned or blocking task ends, and every network wait ends
because the HTTP client sets connect and request timeouts (`http.rs:49`).
Nothing is assumed of callers (they need not start, nor be dropped), of the
server (it need not answer), or of failures, which the models bound. In
`EventSync` the failures are finite, so a poll succeeds in the end. FIFO service
of tokio's locks is what makes weak fairness enough for the gate, the pool and
the limiter. `NodeReads` and `NodeWrites` state safety only: each of their calls
is a finite sequence of requests that waits for nobody but the server, apart
from the mutexes of `Bootstrap`, which a dropped or failed call releases.

## 5. Proofs

Each composition has a module of proofs, and each theorem holds for every value
of the constants under the assumptions the modules state on them; TLC evaluates
those in the runs. A safety theorem names an inductive invariant, proves that it
holds at the start (one lemma), that every step keeps it (one lemma for each
action or group of actions, one step for each conjunct it can disturb), and that
it implies the property. None of the properties is inductive alone; what has to
be added is the argument why the code is right, so it is told here.

| Module | Theorems | What the inductive invariant adds |
|---|---|---|
| `HttpClientProofs` | `TypeCorrect`, `TokenNotReused`, `TokensInSync`, `ResendNewer`, `RotationNeedsExpiry`, `PersistedNeverOlder` | `LockInv`: a task is in the critical section exactly when it holds the mutex; `CallInv`: how caller and task go together; `GenInv`: how the generations in the store, the client, on the wire and at the server are ordered at each control state; `ExpiryInv`: whoever is about to spend the newest refresh token saw its access token rejected; `SyncInv`: as long as no answer was abandoned, how far the sides are apart |
| | `RepeatsOnlyInDoubt` | as long as nothing was in doubt, nothing has acted before the last attempt, and at most once after it, late copies included |
| | `WaitingTold` | the session in memory *and* the saved one are honest about what the server granted them: a resume turns the one into the other |
| `EntityCacheProofs` | `StoreCorrect` (refinement and indexes) | the two tag indexes name exactly what is held; a reader that clears the store met an entry that did not open. The steps are those of `TagCache` under the mapping of `CacheStore` |
| | `FinishedLoadHasCause` | the load in the slot runs, or one of its callers is still to clear it, or was dropped |
| | `StaleAlwaysHasCause`, `EventsNeverSkipped` | `Behind`: no cursor, saved or in memory, is ahead of what was broadcast; `Position`: the events collected follow each other and the cursor with nothing to be seen in between, and what comes before the one in hand was broadcast; `FreshCaches`, `FreshReaders`: a version cached, or fetched and about to be, is not behind what its cache was told of the node, which for the event in hand the folder keys learn before the entities and both before the subscribers |
| `SharedStateProofs` | `CacheFresh`, `LookupsFresh`, `MutationExcludes` | `RoleInv`: which control states each kind of operation has; `GateInv`: guards and control states agree, a write guard excludes all others; `FreshInv`: cache and answers in hand are not behind what only a writer can move |
| | `RenewedOncePerDeath` | `MutexInv`, `SeenInv`, `BearerInv`: the holder of a mutex replaces the generation still in place, which it saw fail; `ListingInv`: every listing of a generation but the last has failed |
| | `RetriesBehaveAlways` | at most `Width` jobs are under way, so nobody waits for a unit before the first timeout, and whoever waits after it wants them all; the units taken are those of the posts under way |
| `TransfersProofs` | `BlocksAlwaysAccounted`, `BlocksWrittenInOrder` | `Line`: the blocks an upload has read stand in one row, from those waiting for a permit over the channel to the batch and what is stored, with no gap; who holds permits is who owns blocks; a window holds the next indexes in order |
| `NodeWritesProofs` | `UploadsAlwaysSound` | the server's draft numbers are never sealed twice or reopened; a request under way or late is one its upload could send now; an upload that may delete a draft still may |
| | `SavedPhotosSurvive`, `DeviceNamesAlwaysOpen` | a deletion only follows a listing; a rename puts the name under the session key of the packet the server still has |
| | `InviteesAlwaysNew`, `HandedUrlsAlwaysOpen` | every entry from before a call's first list is noted, or in a list the call has yet to read, which is so because an invitee moves through the lists in the order they are read; an update has the password of the link that is there, and its share |
| | `OutcomesAlwaysTrue`, `RivalNamesAlwaysKept` | a node of a batch move waits, is answered, or has its outcome, and waits or is answered once; what waits has had no effect unless its answer was lost; what is built has the hash of the fetched link or one from the cache, and a retry sends that of the fetched link, which the server compares; the batches of a trash, restore or delete have no node in common |
| | `TransfersAlwaysReported` | `Book`: each photo given is reported, queued, in the batch in hand or among the copies to make, in all as often as it was given; if none was given twice, what is reported ok was brought in, what is still to come was not unless it is among those that came in aside from their own answer, and what has been sent and is still to come was queued again, once |
| `NodeReadsProofs` | `KeysAlwaysResolved` | the tree has no loops (a move keeps that); each ancestor fetched is the parent of the one before it, each key found is the one looked for, and a chain has come to its node by way of its descendants, all as long as the call has met no cause to fail |
| | `VolumeNeverBesideActive` | who creates holds the mutex and has found no active volume since; a creation that may still arrive was given up on |
| | `OneFolderPerPath` | whatever a call has reached is where the path so far leads; without doubles there is one such folder for each length; whoever was refused a creation finds what it was refused for |
| | `DefaultAlwaysLowest` | the flag for a broken default goes with the two lists that were stored with it, and a call about to answer has these lists or has been overtaken |
| | `EveryThumbnailOnce` | each place of the list is to be looked up, or has an id without an outcome, or an outcome, or a later place of the same file has its id; the ids without one are in the chunk in hand or in one to come |
| | `ReadsAlwaysSlices` | what a reader has noted of its revision is that revision's attributes or none; the sizes it reads by are the true ones, or those of standard blocks, or, for a single block, not too small; block by block, what is spliced so far is the range up to the block's end; round by round, what a download has so far is the front of the text |
| `ListingProofs` | `EverythingListedOnce` | by anchor: everything up to it that was there all along has been listed, and nothing beyond it; by number, while nothing changes: the pages taken are the front of the list |
| | `InputsAlwaysAnswered` | a name waits to be sent once or has been sent; an input has each of its matches once if its name has been sent, and none before |
| | `CrawlAlwaysComplete` | of the links nothing has disturbed, none is queued or gathered twice, a queued one has been gathered, and a link was gathered (or skipped) exactly if its folder has been gone into; each listing under way has every undisturbed child of its folder once in one of its stages, and the way up it has fetched stays on what is above the child. At the end no folder is queued, so from a link that was not gathered one climbs to the shared folder past none that was |

`HttpImplementsParts`, `EntityImplementsParts`, `SharedImplementsParts`,
`WritesImplementsParts` and `ReadsImplementsParts` say that every behaviour of a
composition is a behaviour of each of its parts: its steps are steps of one part
that leave the others alone. So a theorem about a part holds in the whole, and
what the runs explore in the composition is what is proved. (`Transfers`, one of
the parts, is proved about directly: what it is made of shares the pool.)

`LeastNumber` (`OrderLemmas`), that a set of numbers has a least one, stands in
for induction throughout: a smallest counterexample is taken and refuted
(`RunIsList`, `LowestIs`, `CanBeOrdered`). From it come `Iterates` and
`IteratesOnce`: what is computed step by step from a first value exists and is
unique. So the recursive functions of `Revisions` (the ends of the blocks, the
splices, the rounds of a download) are known by their steps, and a smallest
block or round at which a claim fails refutes itself. `MoveMakesNoLoop` is why a chain of
parents ends. The proofs about lists count: `OrderLemmas` says how often
something is in a concatenation, in what a selection of positions leaves, and in
a listing of a set.

What the proofs changed in the models:

* `DefaultIsLowest` had judged a call that had ended against a list of failures
  stored later, which three calls refute; it now judges it against the failures
  stored with the list the call read, noted when it begins.
* `KeyWalk` did not say that the server's trees have no loops; it does now, and
  `Move` does not put a folder into itself.
* What was recursive (`AncestorRun`), filtered (the events of a page, the batch taken
  from a queue of moves) or folded over a set (the errors of a chunk of thumbnails)
  is defined by what characterises it.
* Where the server answers with a set (`DeleteSaving` of `Albums`, the children of a
  folder in `Visitor`, the photos of a chunk in `PhotoLookup`), the models had it in
  one fixed order; they now take it in any.
* A lost batch of a transfer had counted as sent the photos without a name hash,
  which `save_photos_to_timeline` holds back, and had left the call looking as if it
  had been asked for nothing; it now ends as `"lost"`, with only what went out in
  doubt. A batch of which nothing is sent cannot be lost.
* `Recorded` of `Albums` had been given the missing related photos whatever the
  answer; a refused photo is now recorded as refused, as in
  `record_transfer_outcome`, and only an answer that names missing ones queues it again.
* `Visitor` let a link have a file as its folder, and the shared folder a folder of
  its own; the server's trees are now said to be trees of folders under the shared one.
  What is above a link is the least set closed upwards that has it.
* `Revisions` now says what uploaders record of their blocks (`Fits`): attributes that
  are left out, that cannot be, or that are true; for sizes
  that are plausible and false nobody but the uploader vouches, and `plan_blocks` says
  itself that it is correct only for truthful ones. `rank_block_sizes` refuses sizes that are not
  positive and passes over a negative total, which the model had left out. A download
  of an empty revision fetches no block, so it ends well though the revision is gone.
* The sets of photos, rows and links are finite, as they are at the server.

What comparing the models with the code once more changed:

* `NodeMoves` had fetched the links and read the cached hashes in one step, and no
  reads by other tasks during a call; the two are steps of their own now, answers
  may leave items out, and a repeated batch is sent into whatever the server has
  become meanwhile. The exception of `RivalNameKept` is wider for it.
* `FolderPath` had unique names, `Thumbnails` a set of files instead of a list.
* `Albums` had brought in main photos only, never copied a photo whose answer was
  lost, and never sent a batch twice.
* `DefaultIsLowest` had exempted every overlapping load.
* `ClimbsTheTree` had counted repeated ancestors, which `MaxAncestry` bounds.

Only model-checked: liveness (`CallsServed`, `CachesConverge`, `EveryCallerServed`,
`NobodyWaitsForever`, `EveryTransferEnds`). It rests on fairness and `ENABLED`, which
the provers do not handle.

## 6. Abstractions

Payloads, names, keys and signatures do not appear; versions, generations and
pairs stand for them: a key is named by the folder it belongs to, a name hash is
the folder and the name, an SRP exchange is its number. Durations do not appear;
a timeout is an outcome that may occur. The listing of a revision takes its pages
one after the other, where the code fetches a window of them at once; concurrent
renewals are covered by several revisions sharing a session. In `FileUpload`, the
block phase is one step, for `UploadPipeline` and `BlockUpload` model it. In
`KeyWalk` one call is followed, and the caches change around it as other calls,
events and evictions may change them. Sizes in `Revisions` are small numbers;
the 64-bit offsets of the code saturate where they could overflow.

## 7. Not modelled, and why

* Cryptography (OpenPGP, AEAD, SRP): its results appear as "opens" or "does not
  open"; computing them is out of a model checker's reach.
* Wire types, ids, timestamps, telemetry: serialisation and logging. The codes
  and conflict details that decide control flow are in the modules that use them.
* `update_member_role`, `update_invitation_role`, bookmarks and the reports of
  recently accessed nodes: one request each, with no state in the client.
* An event of an unknown type, and a subscriber slower than the broadcast
  channel: see the note in `hazards` for the first; the second is told by a
  `Lagged` error of a channel the application reads.
* `photos_volume_exists` is remembered as false for the client's life
  (`client.rs:5831`); whether a volume created elsewhere should be noticed is not
  said anywhere.

## 8. What could come next

The hazard that has no property, an event of an unknown type: what the
application is to do about it would have to be decided first.
