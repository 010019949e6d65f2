# A TLA+ model of the International Student Help app

The repository is an iOS app (Swift, `gbc-Project/gbc-Project/`, about 2400 lines) on
top of Firebase: accounts (Auth), documents (Firestore) and photos (Storage). There is
no server code and no test; what the app does is decided by view controllers whose
handlers start asynchronous calls and whose completions run later, on the main queue, in
whatever order the network brings them. What these handlers rely on is decided in the
vendored Firestore client, whose streams, write pipeline and listen targets are modelled
too.

## 1. Inventory

| Component | State | Operations | Talks to |
|---|---|---|---|
| Upload posting (`UploadMarketPlaceViewController`) | the form, the picture | `uploadButton` → `addDocument` → `uploadImage` → `putData` → `downloadURL` → `setData(Image)`; the completion of `addDocument` also merges `Ref` | Firestore `Upload`, Storage `Uploads/` |
| Manage postings (`ManagePostingsViewController`) | `manaageArray`, the user's postings | `loadFireBaseData` in `viewDidLoad` and on each appearance, `cellForRowAt`, `didSelectRowAt` | Firestore, update screen (`DocPath`) |
| Update posting (`UpdatePostingsViewController`) | `DocPath`, the picture | `loadFireBaseData`, `updateButton`, `deleteButton`, photo upload | Firestore, Storage |
| Marketplace list and details (`MarketPlaceViewController`, `DetailViewController`) | `uploadArray`, `postingArray`, the filter segment | reload on each appearance, `segmentChanged`, details, SMS | Firestore |
| Firestore client: mutations and views (vendored) | a mutation queue for each user, on disk | write, local view, acknowledge, refuse | `RemoteStore` |
| Firestore client: `RemoteStore` and its two streams (vendored) | `write_pipeline_`, `listen_targets_`, outstanding target answers, the state and timers of each stream, `OnlineStateTracker` | start, token, handshake, write, backoff, idle, restart, change of user; `getDocuments` as a listener of one answer | the backend, the mutation queues |
| Sign up and profile | the account, the `users` documents | `signUpButton`, `getUserData`, `updateUserData` | Auth, Firestore, Storage |
| Session (login, Google, logout, home tab) | the current user (in the keychain), the root of the window, auth listeners | `loginButton`, `sign(_:didSignInFor:)`, `logOutPressed` | Auth, Google |
| Information board | `infoArray`, `infoImage` | submit, load, open | Firestore `infoUpload`, Storage |
| Currency converter | `results`, `baseRate`, `selectedCurrency` | `convertPressed`, `loadData` | exchange rate service |
| News list | `articles` | decode a bundled file | - |

What is hard: a posting is published by a chain of five asynchronous steps, and every
one can be the last; the chain lives in closures that die with the app, while the queued
writes are on disk and survive; two devices, or two screens of one device, work on the
same document with merges that have no precondition; lists are reloaded and drawn at any
moment of it; force-unwrapped values end the app. In the client, timers, tokens and
answers arrive for a stream that has been closed and started again meanwhile.
`PROJECT.json` lists each of these as a hazard, at its line.

What makes it correct: a device writes only to postings of its own user; a posting keeps
its author; an Image link has its photo; what can be tapped can be edited; what was
announced lands; what was deleted is gone; what is listed can be drawn. The last two do
not hold (section 5). An account's profile holds its own address and photo, a link in it
has its photo, an announced sign-up gets its document, an update is what is shown (it is
not, section 5). The rows of the converter are not older than the last conversion; the
details shown are those of the row tapped, the rows those of the segment. An info gets a
photo of its own form. The client keeps every write until it is answered, sends it as
the user it belongs to and in order, takes each answer for that of the right batch, and
answers every read.

## 2. Modules

| Module | What it is |
|---|---|
| `FirestoreOps` | the mutations the app issues, as patches, and the local view: a field's value is that of the last queued write that touches it; `Replay`, the same by applying the queue write by write, as the SDK does |
| `Postings` | the marketplace: the backend's collection, each device's queue and write stream, Storage, the pending chains, the screens |
| `PostingBoard` | the abstract specification: the steps by which the stored postings may change, with no devices, queues or screens |
| `MCPostings` | its instances for TLC |
| `FirestoreOpsProofs` | that the local view is the queue applied in order; reading one's own writes |
| `PostingsProofs` | types, ownership and photo links, for every value of the constants |
| `PostingsOrderProofs` | the order behind the postings, that `Postings` implements `PostingBoard`, that the update screen is safe, that what is shown is complete, what was announced is kept and every chain is awaited |
| `MarketPlace` | the list of all postings, its filter, its indicator and the detail screen; EXTENDS `PostingBoard`, whose steps change the collection under it |
| `InfoBoard` | the information board: the administrator's form and upload chain, a reader's list, pictures and detail screen |
| `InfoBoardProofs` | which photo an info has and which picture is shown, for every value of the constants |
| `Profile` | log in and out, sign up, the profile screen and the collection `users`; uses `FirestoreOps` |
| `MCProfile` | its instances for TLC |
| `ProfileProofs` | types and photo links of `Profile`; no profile mixes two accounts, and updates are queued for their user; for every value of the constants |
| `CurrencyConverter` | requests, answers and rows of the converter |
| `MCTabs` | instances of the three tabs that share no state: `CurrencyConverter`, `MarketPlace`, `InfoBoard` |
| `TabsProofs` | which request the rows of the converter belong to; the rows, the details and the indicator of the marketplace list; that each read and each filter has exactly one result |
| `Stream` | `stream.cc`: the life of a stream, as operators on a record; used by both halves |
| `WritePipeline` | the write half of the client: queues, pipeline, handshake, write stream, completions |
| `WriteQueue` | the abstract specification of the write half: a queue for each user, delivered in order |
| `WatchTargets` | the read half: `getDocuments`, targets, watch stream, online state |
| `RemoteStore` | both halves, with what restarts or ends both |
| `MCRemoteStore` | its instances for TLC |
| `RemoteStoreProofs` | the assertions of the read half, and that a read gets its own answer, for every value of the constants |
| `WritePipelineProofs` | the write half: its assertions, its pipeline, that no write is lost, that it implements `WriteQueue` |

### How `Postings` corresponds to the code

* `server` is the collection `Upload`. A document is a function of four fields: `form`
  (the seven the user fills in), `user`, `ref`, `image`; an Image is identified with the
  id of its photo, `Uploads/<id>`.
* `queue[v]` is the mutation queue of the SDK on device `v` and survives the process;
  `sent[v]` is how many of its writes the backend has applied on the current stream. The
  stream sends without waiting (`WriteApplied`), a result removes the oldest
  (`WriteAcknowledged`), and a stream that breaks (`StreamBroken`) or an app that
  restarts sends everything again. A permanent error is taken for the answer to the
  oldest write (`WriteRejected`): that is the refused one if the answers before it have
  been read; if a send fails first, `grpc_stream.cc` finishes the call at once, they are
  dropped, and a write that was applied is given up instead. These are the steps of
  `WriteQueue`, which `WritePipeline` implements; what lies below (batches on the wire,
  timers, tokens) is only there.
* `task` holds the pending chains: the stage names the completion it waits for. A chain
  knows the controller it belongs to, because an alert presented on a popped or covered
  controller is dropped by UIKit.
* `ui[v]` is the top screen, the alert over it, the outstanding `getDocuments` calls,
  and of the lists what decides whether they can be drawn and tapped.
* One action per handler or completion, with the source's name where it has one
  (`uploadButton`, `updateButton`, `loadFireBaseData`, ...). The `loadFireBaseData` of
  the update screen is `loadPosting`. `Trap` is the end of the process: a forced unwrap
  of nil, an assertion of the SDK (`document("")`), or a kill. A nil picture in
  `updateButton` traps after `setData` has handed its write to the SDK's own queue, so
  the write may or may not be stored.
* `Habits` says what a user ever does on a device and keeps instances with two devices
  small; the theorems hold for any value of it.
* `owner` and `deleted` are history variables; no action reads them except that
  `CreateAutoId` never returns an id twice.

Left out: texts and layout, which of two photos of a posting is shown (an upload
overwrites); the filter, the indicator and the detail screen (`MarketPlace`), signing in
and out (`Profile`; here a device starts with a signed-in user). A read sees the server
with the device's queue over it at the moment it completes; the fallback of
`getDocuments` to the offline cache is only in `WatchTargets`. A table draws all its
rows: lists in the instances are shorter than a screen. When a screen is popped, what it
still had to read is dropped (`Pop`). For the lists that is right, since their closures
only fill an array nobody draws. The closure of a popped update screen unwraps the Image
of its posting (UpdatePostingsViewController.swift:164) and could still end the app: in
`postings_shared` a kill at the same place does the same, and in the runs without kills
no Ref and no Image is refused, so the Image of a posting that can be opened is there
until it is deleted.

### How `MarketPlace` corresponds to the code

`uploadArray`, `postingArray`, `filterSegment` and the `array` and `index` of the detail
screen are the source's. Documents come in the order of their ids (`Found`), filtered
rows in the order of the array (`Pick`). `drawn` is how many
rows `cellForRowAt` has been asked for: the first `Visible` at a reload, all after a
scroll; drawing row `count-1` stops the indicator, drawing a row without Image ends the
app. The detail screen gets a copy (Swift arrays are values), so later reads do not
change it. What the devices do to the collection is any step of `PostingBoard`, which
`postings_shared` shows to be all they can do while the backend refuses no Ref.

### How `Profile` corresponds to the code

* A `users` document is four fields: `user` (userId), `email`, `name` (userName and
  phone), `image` (the object in Storage the url points to). An account has at most two
  documents, `<<a, "signup">>` with an automatic id and `<<a, "own">>` named after the
  uid, and two photos with the same names. `LastDoc` says which of the two ids is the
  greater one; a uid and an automatic id are both random.
* `chain[a]` is the sign-up under way for address `a`: `create` (createUser sent),
  `created` (Auth has the account and made it the current user; the completion is
  queued), `put`, `url`. `ProfileAdded` reads the fields of the form when the url has
  come, as the closure does, and then clears them.
* `ui.open` is the navigation stack above the log-in screen. The Ok of an alert pops
  whatever is on top. `ui.told` is a pending call of the auth listener, `ui.loads` the
  `getUserData` calls not answered, `ui.pick` the photo upload of the screen.
* `Habits` restricts the user: `leave` (goes on while Auth is still answering), `retype`
  (changes the form meanwhile), `photo`, `rename`, `google`.
* `queue` has a queue for each user (Absent: nobody signed in), as the client has; it
  sends, and reads through, that of the current user (`Pipeline`, `View`), and learns of
  a new user with the change itself. Resends are left out: the writes here replace whole
  documents of one device, so a resend in order ends in the same documents.
* The callback of Google makes the tabs the window's root without a sign-in to Firebase:
  `GoogleSignedIn` leaves `current` as it is, which may be nobody or the user of last
  time, and screens that unwrap `currentUser!` then trap (`OpenPostings`, the profile
  screen). `GoogleFailed` is a cancelled or failed sign-in: `user` is nil and the
  callback unwraps it. Logging out does not leave those tabs: they have nothing below
  them to go back to. One Google sheet is open at a time (two taps would install the
  tabs twice).

Left out: the alerts of a failed log in or sign up and the password reset (they change
nothing else), the administrator's shortcut (it opens the form of `InfoBoard`), the home
tab's listeners, one more for each appearance (HomeTabViewController.swift:33-45), and
the welcome text they set, the picture itself. One photo upload of a profile screen is
under way at a time. The path `user/nil.png` of a photo that is picked while `userId` is
nil (ProfileViewController.swift:151) is not followed: the listener's first call is
queued before the screen appears and comes before any tap, and with nobody signed in
Update ends the app at `userId!` before it stores a link.

### How `InfoBoard` corresponds to the code

One phone is the administrator's (`addInfoViewController`), one a reader's
(`InformationViewController`, `detailedInfoViewController`); between them is the
collection `infoUpload`. An info is its document id, since its texts never change, and
photos are numbered in the order they are picked, so that "the photo of the form at the
tap" and "one picked later" can be told apart. `chain[d]` is the upload of info `d`: the
completion of `addDocument` reads the image view of the form it came from
(`uploadImage`), which may show another photo by then, or none (a trap). Nothing
disables the button or clears the form, so any number of chains overlap. The queue's
oldest write is applied and acknowledged in one step, as a resend changes nothing here.
The list reads once; `Draw` is `cellForRowAt` (it unwraps the url, a trap when an info
has no Image yet) and starts a load, again when a row comes back on the screen
(`ScrollBack`); `infoImage` is whatever load came last and is what
`didSelectInfo` hands on (`didSelectRowAt` and `prepare`; `loadInfos` is `loadData`).
The photo is in Storage from `PutCompleted` on, which is the only place that writes it.

### How `RemoteStore` corresponds to the code

All of the client's core runs on one worker queue, so an action is one operation on that
queue: a call of the app, a timer, a token, an event of gRPC. The code's calls between
`RemoteStore`, the streams and `SyncEngine` happen within such an operation and are
operators of `Stream` and helpers here.

* `write` and `watch` are the streams: `state`, the two timers, and `tokens`, the
  answers of `GetToken` that are due. `close_count_` is compared by calling a token
  "old" once the stream was closed (`ResumeStart`). `sound` is FALSE once a
  `HARD_ASSERT` on the way has failed; each is translated where it stands (`Checked`).
* `queue[u]` is the mutation queue of user `u`, `pipeline` is `write_pipeline_`,
  `result` what the app's completion was told. `call` and `listen` are the gRPC calls
  with what is on the wire in each direction and how the backend ended them. A call that
  ends delivers what came before, unless a message was being written (`WriteEndSeen`,
  `WatchEndSeen`).
* A call the backend ends with an error closes the stream, which is started again if it
  is needed. One it ends with OK (the fault `finish`) goes the way of `Stop`: `Close`
  tells the two apart by the status alone. A stream that is not needed is then left
  alone; one that is needed fails the HARD_ASSERT of `OnWriteStreamClose` or
  `OnWatchStreamClose`, and the process ends: `StoppedWhileNeeded`, which is both halves'
  `Kill`, and the finding `graceful_stop`.
* A listen target carries the read it is about; `outstanding` counts the answers the
  backend still owes (`IsActiveTarget`), which is what keeps the results of an older
  listen of the same query apart. Current and the global snapshot that raises it are one
  message. `tracker` is `OnlineStateTracker` with its timer.
* `RestartWrites` and `RestartWatch` are the two halves of `RestartNetwork`, for a
  change of network, the return to the foreground, or another user.

Left out: errors of one target, existence filters, limbo documents, two listeners of one
query at once, the contents of documents, transactions, the cache of the token provider,
`DisableNetwork` and `Shutdown` (the app calls neither).

### How `CurrencyConverter` corresponds to the code

`asked` numbers the requests of one visit to the screen; `results` is the number of the
one whose rates fill the table, 0 for nil. The picker, the text field and `baseRate` are
the source's; `Amounts` are the texts `Double(_:)` accepts. The arithmetic of a row is
left out.

## 3. Runs

| Run | Instance | Checks |
|---|---|---|
| `postings_shared` | 2 devices of one user, one adds, the other edits and deletes; 1 id, 1 chain; every fault, broken streams, refused adds, edits and deletions | `TypeOK`, `LinkHasPhoto`, `ChainsAwaited`, `UpdateScreenSafe`, `ShownComplete`, `OrderInv`, `ImplementsBoard`, `AnnouncedKept` |
| `postings_two_users` | 2 users with a device each, 2 ids, 2 chains | `OwnPostingsOnly`, `AuthorKept` |
| `postings_live` | 1 device, 2 chains (upload and update, or two uploads at once), kills | `AnnouncedLands`, `PublishedOrDied` |
| `deleted_returns` | 1 device, no fault, a tap only with an empty queue | `DeletedStaysGone` is violated |
| `undrawable_row` | 1 device, no fault | `ListsDrawable` is violated |
| `tabs` | one tab, chosen at the start: the converter (2 currencies, numbers and other texts, 4 requests a visit), the list over one posting and over two, the board with 2 infos, 2 forms and 2 photos | `TypeOK`, `RowsNotOlder`, `ConvertShows`; `DetailIsTapped`, `FilterKept`, `SpinnerOff`; `PhotoOfItsForm`, `PicturesExist`, `PictureOfThisList` |
| `profile_apart` | 2 accounts with either order of their documents, every fault, Google sign-ins, a user who waits for Auth | `TypeOK`, `LinkedPhotoStored`, `ProfilesApart`, `UpdatesOfTheirUser` |
| `profile_live` | 2 accounts, a user who leaves and retypes, kills | `SignUpLands` |
| `profile_update` | 1 account, no fault | `UpdateIsShown` is violated |
| `remote_store` | five mixes, with every fault: 3 writes of a user, 2 writes of two users, 2 reads of one query, 2 reads of two, a write and a read with two users | `WriteTypes`, `WatchTypes`, `WritesSound`, `WatchSound`, `PipelineIsFull`, `AnswersFit`, `NoneLost`, `ImplementsQueue`, `AnswerIsOwn`, `ReadsAnswered` |
| `graceful_stop` | 1 write, 1 read, a backend that ends calls with OK | `GracefulStopsDesirable` is violated |
| `online_timeout` | 1 query, 2 reads, a backend that may stay silent | `OnlineStateDecided` is violated |

Bounds: `Tasks` (chains pending at once), `MaxQueue` (a tap adds a write only to a
shorter queue; completions add theirs anyway), `MaxFetch` (reads outstanding per screen;
with 1 the two first loads of a list count as one; it is 2 in `undrawable_row` and `tabs`,
1 in the other runs of the postings, whose theorems hold for any value), `Docs` (ids ever
drawn). One id is
enough for everything about one posting; the second one in `postings_two_users` lets
both users have one. Two chains are the fewest that overlap: a photo of the update
screen with a deletion, an upload with the next. The queue reaches three writes (a tap
and both merges), so a resend repeats a Ref, an Image and an edit. In `deleted_returns`
it holds one tap's write (`MaxQueue` 1), so Delete is tapped when the backend has all
that came before it, and the violation is about a photo still under way, not about a
resend.

In `tabs` a posting is a job or has lost its Title (a late merge after a deletion), so
each segment but "All" leaves rows out; one row is visible, so that two rows are a list
longer than the screen. With one posting every step of `PostingBoard` is taken; with
two, postings are tagged as soon as they exist and their photos are stored, which leaves
every combination of form and Image. The tabs share no state, so the run is about one at
a time. Two photos and two forms are the fewest with which an info could get a later
photo, or that of another form.

In `remote_store` the pipeline holds two batches (`MaxPending`; ten in the code), so a
third write waits outside it. Two reads of one query are the fewest where the answer to
the first is on its way when the second begins; two queries use both target ids. The
mixes bound how many writes and reads there are, and whether calls break, but not how
often streams start, restart or fail.

`profile_apart` and `profile_live` have one sign-up screen and queue one update beyond
what the chains add; a second screen only multiplies the states, since chains of two
accounts already overlap.

`ProfilesApart` and `UpdatesOfTheirUser` are about a user who waits for Auth. One who
leaves the sign-up screen while `createUser` is under way, logs in as somebody else and
has that profile open when the answer comes gets a screen with the new `userId` and the
old fields.

`UpdateScreenSafe`, `ShownComplete`, `ImplementsBoard` and `AnnouncedKept` are about a
backend that refuses no Ref (and, for the first and the last, no Image);
`postings_shared` sets `Rejectable` so. A backend that refuses a Ref really breaks them:
a posting with an author, an Image and no Ref can be tapped in the manage list and has
DocPath "". `LinkHasPhoto` and `ChainsAwaited` do hold with such a backend: that is
proved (section 4), with no run.

Fairness (`postings_live`): completions of a running process are called and run (`WF` of
`TaskStep`); a closed app is opened again (`WF` of `Launch`); the write stream retries
for ever (remote_store.cc restarts a stream that closed while the pipeline is not
empty), but only while the app is open and the stream holds, hence `SF` of
`WriteApplied` and `WriteAcknowledged`. Nothing is assumed of users, failures and reads.

Fairness elsewhere: in `tabs`, `URLSession` ends every data task with data or an error
(`WF` of an answer or a failure of each request). In `profile_live`, completions of Auth
and Storage are called while the app runs (`WF`), a closed app is opened again, the
write stream retries (`SF` of `WriteDone`). That `createUser` answers is not assumed;
`SignUpLands` excuses an app that ends and a user who is not signed in any more, since
the write waits in her queue until she is.

In `remote_store`, `ClientFairness` is what the client does by itself: timers elapse, a
token is delivered if asked for again and again, listeners are removed, what there is is
read. `NetworkFairness` adds that a backend asked again and again takes a request and
sends its results some day. `ReadsAnswered` needs both, and that the network is not
restarted for ever. `online_timeout` uses `SilentSpec`, which has the first only.

## 4. Proofs

Every invariant the runs check is a theorem, and so are both refinements and the two
action properties, `AnswerIsOwn` and `AnnouncedKept`; TLC alone has the liveness
properties. Each theorem holds for all values of the constants; what is assumed of them
is named below, and nothing about their sizes.

`Postings` (assuming `ConstantsAssumption`, the types of the constants, and
`MarkersDiffer`, the markers Absent and Keep are no values):

* `TypeCorrect`: `TypeOK` is inductive as it stands.
* `OnlyOwnPostings`, `AuthorIsKept`, `LinksHavePhotos` follow from one inductive
  invariant, `TypeOK /\ OwnInv`. `OwnPostingsOnly` alone is not inductive: that a device
  opens only its user's postings depends on what it reads in a list, that is on the
  fields stored and queued (`FieldsOwn`, `QueuesOwn`), these on what the chains will
  write (`TasksOwn`), and these on what was on the screen (`ScreensOwn`). `Grows` is the
  frame: ids keep their owner, photos stay. The step that needs an argument is the
  reload of the manage list: `ViewOwn` shows, from `FieldViewSource`, that whatever is
  queued, the local view of a posting has its own Ref and its owner as User.
* `OrderHolds`: `OrderInv` is inductive on top of `TypeOK /\ OwnInv`, for a backend that
  refuses no Ref (`RefsAccepted`). While an add is queued nobody else knows its id
  (`AddAlone`), so sending it again touches nothing anybody wrote. Its completion queues
  the Ref, and whatever else is queued for a posting comes later in the same queue, or
  from a device that has read the Ref in its list (`RefFirst`). A resend goes back to
  the start of a queue, which is harmless because a Ref among the writes already applied
  is stored (`SentApplied`). `RefGrows` carries `RefBefore` over a step.
* `MarketIsABoard`: with it, every step of `Postings` is a step of `PostingBoard` or
  changes nothing the board has. Only three do change it: drawing an id, `putData`, and
  the backend applying a write; there the kind of the write picks the step, and `OrderInv` gives its guard (`Publish` finds nothing stored, `Attach`, `Edit`
  and `Remove` find the Ref). What `MarketPlace` says of its list thus holds over the
  real devices.
* `UpdateScreenIsSafe`, from `PictureInv`, for a backend that refuses no Image either
  (`ImagesAccepted`). A row that can be opened had an Image or belongs to a posting that
  was deleted (`Illustrated`, `RowsOpen`), because drawing the list would have ended the
  app without; an Image that a device has read from its own queue stays there until it
  is stored (`ImagesStored`).
* `ShownIsComplete` (no refused Ref), from `PostedInv`: everything a device does to a
  posting comes after the backend has applied its add. A queued write of another kind, a
  chain past its add, a row and a DocPath are all of a posting that is stored with its
  author or whose deletion is confirmed (`Posted`), so a stored Image finds form and
  author there. After the deletion nothing is claimed: a late merge leaves a remnant,
  which is the finding `deleted_returns`.
* `AnnouncedIsKept` (no refused Ref or Image): the success alert follows the queueing of
  the Image, and the Image stays queued until the backend answers it. When another
  write's refusal is taken for the answer to the head of the queue, the head has been
  applied (`HeadIsStored`), and only a confirmed deletion takes a stored Image away
  (`ImageStays`). A deletion from another
  device is allowed to, as it is in the app.
* `ChainsAreAwaited` needs no hypothesis. A chain in stage `add` has its add in the
  queue of its device, because only the head of a queue leaves it and takes the wait
  along, refused or not; and a process that ends takes its chains with it
  (`DiesWithChains`). No chain is left waiting for a completion that can no longer come.
* The two hypotheses are not for the proof's convenience. A backend that refuses a Ref
  while it accepts what follows breaks all that name them, and nothing in the code
  prevents it: the merge of the Ref has no completion
  (UploadMarketPlaceViewController.swift:119). They say of `Rejectable` what the
  instance `postings_shared` sets; that a refused add, edit or deletion is harmless is
  proved.
* `LocalViewIsReplay` (`FirestoreOpsProofs`): the field-wise view all proofs work with is
  the documents with the queue applied to them, oldest write first, which is what
  `local_documents_view.cc` does. It is about the operators, for any documents and any
  queue, and no invariant of the screens. The induction over the queue
  is by a least counterexample in a set of numbers (`AllNaturals`, from `WFMin`), since
  the induction rules of the library take an operator. `FieldViewSource` and
  `ReadYourWrites` say what a field shows; a device does not notice the backend
  applying, or applying again, a write it still has queued (`OwnCommitInvisible`).

The tabs and the profile:

* `RowsAreNotOlder` (`CurrencyConverter`): `RowsNotOlder` needs that pending requests
  were open when the last one was sent and have neither failed nor been shown
  (`RowsInv`). `ConverterTypes`: the amount is always a number. From
  `ConverterAssumption`.
* `DetailsAreOfTheTap`, `FilterIsKept`, `SpinnerStops` (`MarketPlace`, over any board
  that changes by the steps of `PostingBoard`), from `ListInv`: while the list is on the
  screen its drawn rows are rows of the table and have an Image (`DrawnInv`); behind the
  detail screen the table may have been replaced, which the copy does not notice. The
  filter needs a lemma about `Pick`: an increasing enumeration of finitely many places
  is one-to-one, hence misses none (`AllArePicked`). From `InfoAssumption` (finitely
  many ids, which are numbers), which `MCTabs` shares.
* `ReadsAreDefinite`: the models write the answer of `getDocuments` and the result of a
  filter as a member of a set of increasing enumerations. That set has exactly one
  member for any finite set of ids (`EnumerationExists`, the least place put before the
  others; `EnumerationUnique`, at the first place where two would differ), so no read is
  blocked and none is a choice.
* `ProfilesAreApart` and `UpdatesAreTheirUsers` (`Profile`), for a user who waits for
  Auth (`Waits`), from `ApartInv`. What makes it hold: while Auth creates an account the
  sign-up screen stays on top, and while it logs somebody in the log-in screen does
  (`AskingInv`, `SigningInv`), so the current user never changes under an open profile
  screen (`ScreensInv`, `ProfileInv`); the form of a chain keeps the address the account
  was asked for (`FormsInv`); hence every stored or queued document is about the account
  it is named after (`StoredInv`, `QueuedInv`), and so is what a read shows. Without
  `Waits` it is false.
* `PhotosAreOfTheirForms`, `ImagesHavePictures` and `PicturesAreOfTheList`
  (`InfoBoard`), from `BoardInv`. A photo is numbered above all before it, so a form has
  later photos than the forms before it (`PhotosInv`); a chain keeps the form of its
  tap, that form's photo only grows, and Storage is written once for an info (`TapsInv`,
  `ChainsInv`); a row that was drawn has an Image, so its photo is there and stays
  (`ImagesInv`, `RowsInv`). From `InfoAssumption`: finitely many ids, at least one form.
* `ProfileTypes` and `LinkedPhotosAreStored` (`Profile`), from `PhotoInv`: `TypeOK`,
  `LinkedPhotoStored` and `ChainPhotos`, that a chain waiting for its url has its photo
  in Storage. The reads of the profile screen need `FieldViewSource` again. They hold
  for every value of `Habits` and `Faults`. From `ProfileAssumption`.

The Firestore client (`RemoteStore`, assuming `PipelineAssumption`, `ReadsAssumption`
and `FaultsAssumption`, for any queries, reads, writes, users and faults):

* `WatchIsSound` and `ListenersAreServed`, from `WatchInv`: the online
  timer is set only in the state Unknown and before a failure, a token is due exactly
  while the stream is Starting, the backoff timer is set exactly in Backoff, a stream is
  idle only without targets, and while anybody listens it is started. `ReadsTyped`:
  `WatchTypes` is inductive. `WatchSound` is about every HARD_ASSERT on the way but the
  one of `OnWatchStreamClose` when the backend has ended the call with OK; so is
  `WriteIsSound` for the write half.
* `StopsAreDesirable`: for a backend that never ends a call with OK (no fault `finish`)
  `StoppedWhileNeeded` is never taken. With it, nothing the client does by itself makes
  those two assertions fail: the idle timer, a restart and a change of user stop a
  stream only when it is not needed, or start it again in the same step.
* `AnswersAreOwn` (`AnswerIsOwn`), from `ListenInv`. The client takes an answer for
  current when nothing is outstanding for its target. `outstanding` counts the requests
  on the wire and the answers still to come (`Due`), those a call has lost included
  (`DueCounted`); and behind an answer to an older read of a query there is always one
  more due for the same target (`OlderOutstanding`), so it is taken for stale. The
  lemmas count finite sets of places of a sequence as it grows and shrinks, which is
  what `ReadsAssumption` says `Targets` is finite for.
* `WritesTyped`, `WriteIsSound`, `PipelineStaysFull`, `AnswersStayFit`, `NoWriteLost`,
  all from one inductive invariant, `WriteInv`. The rows of a queue are in the order of
  their keys and a new write has a higher one (`KeysInOrder`), so the next batch after
  the last of the pipeline (`Later`) is the next of the queue, and the pipeline is the
  queue's front after every refill. Timers and tokens belong to the state of the stream
  (`StreamInOrder`). Before the handshake nothing but the greeting is on the wire
  (`Shaking`); afterwards the answers are those to the head of the pipeline, all of them
  applied, and a refusal is about the batch after them (`Shaken`). That is why taking a
  result for the first batch is right although nothing in the message says so.
* `WritesAreOrdered`: from `WriteInv` every step of the client maps to a step of
  `WriteQueue` or to a stutter, with `sent` the answers under way after the handshake.

Only model-checked:

* the liveness properties (`AnnouncedLands`, `PublishedOrDied`, `ConvertShows`,
  `SignUpLands`, `ReadsAnswered`): fairness and ENABLED are out of the prover's reach;
* the five properties the code violates (section 5), which TLC refutes.

The models that are proved about avoid operators that take an operator, such as
`SelectSeq`: the filter is `Pick`, the queue loses a batch by `RemoveFirst`, the next
batch is `Later`.

## 5. Findings

* `deleted_returns`: the delete alert says that the data "will be no longer displayed".
  Update, then Delete while the photo is still being uploaded: the completion merges the
  Image into the deleted document, and the marketplace lists a posting that consists of
  a picture.
* `undrawable_row`: the lists unwrap `URL(string: Uimage)!`. Tap Upload and go back: the
  list reloads, finds the new posting without an Image in the local view, and the app
  ends. A posting whose photo never arrives ends every device at every start.

* `profile_update`: the alert says "Your profile is updated." Sign up adds a document
  with an automatic id, Update writes the one named after the uid; `getUserData` finds
  both and keeps the one whose id comes last. When that is the first one, the profile
  never changes for its owner.

* `graceful_stop`: "Graceful stop (due to Stop() or idle timeout). Make sure that's
  desirable." (remote_store.cc:234 and 454). A call the backend ends with OK is a third
  way there (stream.cc:294-304): with a write in the pipeline, or a query listened to,
  the assertion "... was stopped gracefully while still needed." fails and the process
  ends. The comments of the callbacks expect that status: "in which case the stream was
  closed without attributable fault" (write_stream.h:66, watch_stream.h:69).

* `online_timeout`: `online_state_tracker.cc` says that the client goes Offline rather
  than wait indefinitely. A read times out and is answered from the cache; its listener
  is removed while the stream is still starting, which sets the state back to Unknown
  (remote_store.cc:187). The next read finds the stream started, so nobody sets the
  timer again, and it waits as long as the backend is silent.

## 6. Not modelled

* The vendored pods (gRPC, BoringSSL, abseil, leveldb, Firestore, Auth, ...) are more
  than 99 in 100 of the repository's 646,000 lines, most of them tables, cryptography,
  transport and generated code with no behaviour the app's correctness turns on, so the
  models cover a small share of the repository by lines. They reach what the app relies
  on: Auth, Google, Storage and gRPC by their completions, and the Firestore client by
  its source where it decides the order and the fate of reads and writes. In the app's
  own Swift every handler with a state is covered except those named here.
* News list: `articles` is decoded from a bundled file in `viewDidLoad` and never
  changes.
* Cells that are reused while a picture is loading (a wrong picture until the next
  draw), texts, layout, animations, the SMS composer, web links.
* Password reset mail; the listeners of the home tab.
* Of the Firestore client: errors of one target, existence filters, limbo documents,
  transactions, indexes and garbage collection of the cache; the app uses no
  transaction, and its queries are read once.

## 7. Plan

1. Done: all modules of section 2, their runs and the proofs above.
2. The write streams of `Postings` and `Profile` follow `WriteQueue` by construction
   (section 2). A refinement of it is not stated: they have no batches, results or
   stream states, so it would only repeat their actions.
3. The home tab's listeners beside the profile's, if the welcome text is to be checked.
