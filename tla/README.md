# Couri and FoodTracker: TLA+ specifications and proofs

This directory models the two iOS applications of the repository and the parts of
the libraries they ship with on which their correctness rests, checks the models
with TLC and proves theorems about them with TLAPS:

- **Couri** (`src/Couri/Couri`), a delivery application: a home screen with
  restaurants, their menus, an order screen, a side menu with a balance
  transfer, and Firebase authentication;
- **FoodTracker** (`src/FoodTracker/FoodTracker`), a list of rated meals;
- from **Pods** (`src/Couri/Pods`), the code Couri runs that is concurrent or
  survives a crash: the signed-in user of FirebaseAuth, the lock-free queue and
  the combiner of gRPC-Core, and the write path of leveldb, in which Firestore
  keeps its local copy.

The applications are UIKit programs. One thread matters (the main run loop), but
its turns are taps, delegate callbacks, segues and ends of animations in an order
nobody wrote down, and each screen keeps its own copy of what another screen also
knows: a table remembers a selected row that a later callback reads back, a label
repeats a number, a flag stands for a text. The repository's tests cover the
`Meal` initializer and nothing else. What can go wrong there is *stale or
disagreeing state after a long sequence of legal calls*. In the libraries it is
the *interleaving* of threads, queues, timers and server answers, and a *crash*
between two steps.

## Inventory

| Part | State it keeps | Operations | Talks to |
|---|---|---|---|
| Home (`ViewController`) | table selection, `isOn`, auth handles | tap a row, next page, hamburger, `down` | pushes RestaurantDetail and RestaurantList; delegate of the side menu |
| Restaurant list (`RestaurantUIViewController`) | table selection | tap a row, `backPage` | pushes RestaurantDetail, pops to the root |
| Restaurant (`RestaurantDetailViewController`) | `restaurant`, selected category, selected menu row | tap a category or a menu row, `backTapped`, `viewWillAppear` | pushes the order screen with the item of the selected row |
| Order screen (`MenuDetailVC`) | `item`, `itemCount`, `orderPrice`, `updatedOrderPrice`, two labels, a button colour | `increaseCount`, `decreaseCount`, `backTapped` | pops |
| Side menu (`SidebarLauncher`) | scrim alpha, width, tap recognizers | `showSidebar`, its animation, `handleDismiss`, `transferWasTapped` | lies in the window over every screen; asks Home to push Transfer |
| Transfer (`TransferVC`) | none | `cancel` | pops |
| Order customization (`CustomizeMasterCell`, `CustomizeCell`) | selection inside nested, reused cells | select a choice, scroll | none: the total ignores it |
| Authentication (`FIRAuth.m`) | `_currentUser` and its token, the keychain, `_lastNotifiedUserToken`, blocks on the main queue, refresh tasks | load, sign in and out, account deleted, token answers, automatic refresh with back-off | notifies the listener on the main queue; keychain and token service answer or fail |
| Couri's session (`setupFirebase`) | listener registered, login screen | `addStateDidChangeListener` | `loginAction`, whose body is commented out |
| Meal list (`MealTableViewController`) | `meals`, the table's rows, selection, Edit mode | add, open, delete, `unwindToMealList` | presents or pushes the meal screen |
| Meal screen (`MealViewController`) | text field, title, photo, rating, Save enabled | text field and picker delegates, `cancel`, save | unwinds to the list with a `Meal?` |
| Rating control (`RatingControl`) | `rating`, selected stars, hints | tap a star | used by the meal screen and by every list cell |
| Lock-free queue (`mpscq.cc`) | `head`, `tail`, the nodes' `next`; a mutex in `gpr_locked_mpscq` | push by many threads, pop by one | under the combiner and completion queues |
| Combiner (`combiner.cc`) | `state` (count and orphaned bit), initiating ExecCtx, final list, queue | `exec`, `finally_exec`, `continue_exec_ctx`, offload, unref | threads pass it to each other and to the executor |
| Local store (`db_impl.cc`, `log_writer.cc`, `log_reader.cc`) | writer queue, memtables, logs, level-0 files, `bg_error_` | `Write`, `MakeRoomForWrite`, group commit, background compaction, recovery | writers and a background thread share `mutex_`; the file system |
| Others | constant data, layout | | welcome pages, courier picker, profile, library, application delegates, pods |

What makes each part correct:

- *Navigation*: no force unwrap of a selection fails; the stack keeps the
  storyboard's order; a screen shows what was tapped on the one below; covered
  screens are left alone; a side menu that covers the screen can be closed.
- *Order screen*: count, price and button agree; the stored total is not stale;
  plus and minus are inverse.
- *Meal list and screen*: the table never drifts from its data; Save is enabled
  only when it will save; what is saved is what was shown; a save replaces the
  meal that was opened, or appends, and nothing else changes the list.
- *Rating control*: the hint is on the star that really resets.

- *Authentication*: no change is lost on the way to the listener; the keychain
  holds the current user; a late answer never brings a signed-out user back; a
  refresh said to be scheduled is.
- *Lock-free queue*: nothing lost, duplicated or reordered, whatever the
  interleaving; a blocking pop returns.
- *Combiner*: one owner at a time, closures in order, none forgotten, freed only
  when empty.
- *Local store*: a reported write survives the crash of the process, a synced one
  that of the machine; every `Write` returns.

The hazards behind these, each at its source line, are in `PROJECT.json`.

## Modules

| Module | What it is |
|---|---|
| `MenuDetail` | the order screen; one action per button |
| `OrderFlow` | abstract: enter a restaurant, pick an item, change the quantity, transfer, without screens |
| `CouriNavigation` | extends `MenuDetail`: the stack, the selections, the side menu; refines `OrderFlow` |
| `RatingControl` | the star control as operators on a record |
| `MealList` | abstract: a list changed only by saving what was opened, appending, deleting |
| `FoodTracker` | extends `RatingControl`: list and meal screen; refines `MealList` |
| `AuthFeed` | abstract: what `FIRAuth.h` promises a listener |
| `AuthState` | `FIRAuth`: user, keychain, notifications, token refresh, restarts; refines `AuthFeed` |
| `CouriSession` | extends `AuthState` with what Couri's listener does |
| `Mpscq` | `gpr_mpscq`, one step per access to shared memory; who pushes and pops is left open |
| `Fifo` | abstract: the oldest node or nothing, as `mpscq.h` promises |
| `LockedMpscq` | extends `Mpscq` with the consumers' mutex and the blocking pop; refines `Fifo` |
| `Serializer` | abstract: closures run one at a time in order, kept ones when the queue is empty |
| `Combiner` | extends `Mpscq` with `grpc_combiner`; refines `Serializer` |
| `GroupCommit` | leveldb's `Write`, background work, crash and recovery |
| `*MC` (one per component) | instances for TLC; the `.cfg` files of a run give the bounds |
| `MpscqProofs` | lemmas about `Mpscq` for whoever pushes and pops, on which the next two build |
| `*Proofs` (seven) | theorems about `MenuDetail`, `CouriNavigation`, `FoodTracker`, `AuthState`, `LockedMpscq`, `Combiner`, `GroupCommit` |

Some definitions have a sibling used by no specification, placed just before it
and named for a plausible slip (`DecreasedFromThree`, `TransferStaysOpen`,
`AppendsAlways`): `PROJECT.json` lists, for every property, such a variant under
which TLC finds that property violated. They show that the properties have teeth.

### How state and actions correspond to the code

*One action is one turn of the main run loop*: a tap, what UIKit does with it,
and every delegate callback and segue that follows before control returns. So
`TapMenuRow` selects the row, calls `didSelectRowAt`, performs the segue, runs
`prepare(for:sender:)` (which reads the selection back), loads the new screen
and pushes it. Animations that outlive the turn and let the user in between are
separate actions: only the side menu's opening is one (`SidebarAnimated`).

UIKit itself is outside `src/`. What the models take from it is written in the
external definitions: `Top`, `On`, `Push`, `Pop` (the navigation controller),
`Touchable` and `OnMealScreen` (touches reach the frontmost screen; views being
animated receive none, so the screen *under* the opening side menu still does),
`ListAppears` (`UITableViewController` clears its selection when it appears;
the plain view controllers of Couri do not), `Type` (the text field).

- `MenuDetail`: `order` is the view controller; prices are cents. `Loaded` is
  `viewDidLoad`, `Increased` and `Decreased` the two button targets.
- `CouriNavigation`: `stack` is the navigation controller; `homeRow`, `listRow`
  and `detail.row` are the tables' `indexPathForSelectedRow`; `detail` and
  `order` exist while their screen is stacked; `sidebar` and `recognizers` are
  the `SidebarLauncher`; `trapped` records a failed force unwrap.
- `FoodTracker`: `rows` is what the table's cells show, apart from the data
  source `meals`, so that an insertion, reload or deletion that touches only one
  of them is visible. `saveEnabled`, `title`, `text`, `photo`, `control` are the
  views of the meal screen.

In the libraries a step is chosen by what other threads can see:

- `AuthState`: `FIRAuthGlobalWorkQueue` is serial, so one block of it, or one
  method that `dispatch_sync`s to it, is one action. `initWithApp` enqueues the
  loading of the stored user first, hence `loaded` in the guards. Blocks for the
  main queue differ only in when they run, so they are counted (`pending`). A user
  is an index of `objs`: the code compares pointers (`signOutByForceWithUserID`,
  the checks after an answer), and two objects may have the same uid. `timers`
  counts equal refresh tasks, none of which is ever cancelled; delays are only
  ordered by the back-off (`MaxRetry`). Keychain calls fail nondeterministically
  (`ok`), and `faults` remembers it. The keychain, the token service, the timers
  and restarts are the environment.
- `Mpscq`, `LockedMpscq`: each action is one access to `head`, a `next` or the
  mutex, with what the thread does alone up to its next one; `tail` belongs to the
  consumer. `chain` is a history variable: the cells in the order in which their
  pushes exchanged `head`.
- `Combiner`: the same granularity; the thread stands for its `ExecCtx`, which
  holds one combiner at a time here. An application thread may at any time be in a
  hurry (`ExecCtx::IsReadyToFinish`) and hand a contended combiner over; executor
  threads never are. The executor's own queue is a counter (`offloads`).
- Shared memory is sequentially consistent in these two: the accesses that matter
  are acquire loads, release stores and full exchanges, and the relaxed one (a
  node's `next = NULL` before the exchange) concerns a cell nobody else has yet.
- `GroupCommit`: a step is what one thread does while it holds `mutex_`, or one
  file operation without it. A log is the sets of writes of its records, how many
  are synced (`durable`) and where a failed append happened (`torn`). `Crash` is
  the end of the process, alone or with the machine, together with the recovery
  that follows. The one-millisecond slowdown of `MakeRoomForWrite` only releases
  the mutex, and other threads may step between a writer's steps anyway. Which
  level-0 files a compaction takes depends on how their keys overlap, so
  `PickCompaction` is any number of them from one, at the trigger or above it.

Abstractions: names, photos and menus are model values; texts are compared, never
spelled out; layout, colours other than the minus button's, logging and images
are left out. `Double` prices are exact cents: for the counts a user reaches, two
printed digits do not differ.

## Runs

| Run | Instance and bounds | Checks |
|---|---|---|
| `order_screen` | three prices, one of them zero; `MaxCount = 40` | type, `ScreenConsistent`, `ChargeNotStale`, `MinusUndoesPlus` |
| `shopping` | three restaurants with menus of two, one and no items; `MaxCount = 3`, `MaxShows = 3` | type, `NoTrap`, `StackOrdered`, `TrailMatches`, `ScrimDismissable`, `CoveredScreensFrozen`, `FirstCategoryOnAppearing`, `ImplementsOrderFlow` |
| `meal_tracker` | two names, two photos, two stars, up to three meals | type, `RowsShowMeals`, `EnabledSaveSaves`, `SelectionTellsMode`, `ResetHinted`, `SavedAsShown`, `ImplementsMealList` |
| `auth_session` | two identities, two user objects and two tokens per process, one fault, one restart | type, `NothingMissed`, `DiskAgrees`, `ArmedWhileSaving`, `NobodyComesBack`, `ImplementsFeed` |
| `locked_queue` | three nodes, two producers, two consumers | type, `ListUnbroken`, `ImplementsFifo`, `PopReturns` |
| `combiner` | two closures, two application threads, one executor thread | `OneOwner`, `CountRight`, `DestroyedEmpty`, `EveryClosureRuns`, `FinalsRunWhenQuiet`, `ImplementsSerializer` |
| `group_commit` | three writers, four calls, memtables of one write, one crash, one failing sync, log or table | type, `AckedSurvive`, `SyncedSurvive`, `OneLogger` |
| `group_commit_faults` | the same with a failing append and another fault, no crash, in a database opened with up to three level-0 files | `AckedVisible`, `EveryWriteReturns` |

Four more runs find a disagreement between a comment and the code:

| Run | Violated | What the run shows |
|---|---|---|
| `refresh_lost` | `StaleTaskReplaced` | `FIRAuth.m:1633` assumes that a refresh task with an old token has a successor; after an explicit refresh whose keychain save failed there is none, and the flag keeps the next activation from scheduling one |
| `login_not_summoned` | `SummonsLogin` | `ViewController.swift:153` says a change summons the login screen; `loginAction` is commented out |
| `empty_queue` | `EmptyMeansEmpty` | `mpscq.h:84` says a locked pop returns NULL only if the queue was empty at some point; it does so while a completed push waits behind one that is still being linked |
| `torn_log` | `AckedVisible` | `options.h:194` says a crash of just the process loses no write; a write reported done after another one's failed append can be lost |

What the passing runs show:

- `order_screen`: whatever the order of taps, the label, the price and the gray
  minus button tell the same count; the stored total lags behind only on a
  screen nobody touched; a mistaken plus is undone by one minus.
- `shopping`: a tap that beats the side menu's animation can put Transfer over a
  restaurant or an order, and cancelling it comes back to the same restaurant,
  row and quantity; the only visible change is that the first category is
  highlighted again. Selections left in lists are never read for another tap.
- `meal_tracker`: there is no sequence of editing, picking, rating, cancelling
  and deleting after which Save silently drops or misplaces a meal.
- `auth_session`: over late answers, forced sign-outs, failing saves and restarts
  the listener is told who is signed in, and nobody is stored who is not.
- `locked_queue`, `combiner`: the windows between an exchange and its store, and
  between raising the count and pushing, cost at most a retry or an offload.
- `group_commit`: groups, memtable switches, background errors and crashes never
  lose what was reported, as long as appends to the log do not fail.
- `group_commit_faults`: without a crash, failed appends take nothing from what
  can be read; and every writer is woken, whatever fails, also when compactions
  take one level-0 file at a time and the writer has to wait again after the first.

Why the bounds are enough. `decreaseCount` distinguishes counts up to three, so
three of an item reach every branch, and forty only repeats them. A menu of two
items is the least in which a wrong row can be read, the empty menu is what
Cupcakin' and Gypsy's ship with, and a restaurant with two categories is the
least in which the highlighted one can be wrong. Three openings of the side menu
allow two of them to overlap and a third on a stack they changed. Two stars have
a star below, at and above a rating; three meals have a row before, at and after
the one changed, and the list can be emptied. Two user objects and two tokens are
the least for an answer to concern an older object and a task an older token,
and one identity may have both. Three nodes let the list be cut with nodes before
and after the cut, and be used again. Two closures allow one to be final and one
pushed while the other runs; two threads contend, and the third is the executor.
Memtables of one write are switched by the second; four writes fill two of them
while a third is being saved, and three writers are a leader, a follower and one
left out of the group. With `L0Stop = 2`, a compaction of one of three level-0
files leaves a writer blocked. A crash leaves an opened database without writers,
so for the promise that calls return, starting with such files stands for it.
`MaxCount`, `MaxShows`, `MaxMeals`, `MaxUsers` and the other `Max...` constants
appear in a guard each and bound nothing in the code, except `MaxRetry`, the
longest back-off, and `MaxRating`, which are the code's.

The application runs and `locked_queue` check for deadlock. The others say
`CHECK_DEADLOCK FALSE`: a session whose bounds are used up, a destroyed combiner
and a store whose calls have all returned really stop.

*Fairness*. None in the applications: every step but the end of the side menu's
animation is a user's tap, on which the code may not count. In the libraries weak
fairness is given to what a scheduler owes: the main run loop runs the blocks of
its queue and every launch reaches `viewDidLoad` (`Deliver`, `AddListener`); a
thread inside a push, a pop, a combiner or a write keeps running (`Pushes`,
`Pops`, `Works`, `Steps`), and so does the background thread (`Background`). No
user, server, timer, crash, new call or new push is ever owed. Hence
`ImplementsFeed` includes the promise that the listener is told, `PopReturns` and
`EveryWriteReturns` that calls return, and `EveryClosureRuns` holds however many
other closures come; final ones are promised only once scheduling ends.

## Proofs

The theorems hold for every library, menu, price, number of stars, meals,
nodes, closures, threads, writers and counts, under the assumptions named in the
modules (`PriceAssumption`, `LibraryAssumption`, `QueueAssumption`, ...). `RatingAssumption` deserves notice:
`Meal.swift` and `RatingControl.swift` each write a 5 that must be the same.

| Theorem | Property |
|---|---|
| `MenuDetailProofs!ScreenSafe` | type, `ScreenConsistent`, `ChargeNotStale` |
| `MenuDetailProofs!PlusThenMinus` | `MinusUndoesPlus` |
| `CouriNavigationProofs!NavigationTyped` | `AppTypeOK` |
| `CouriNavigationProofs!NavigationSafe` | `NoTrap`, `StackOrdered`, `TrailMatches`, `ScrimDismissable` |
| `CouriNavigationProofs!CoveredFrozen` | `CoveredScreensFrozen` |
| `CouriNavigationProofs!FirstCategory` | `FirstCategoryOnAppearing` |
| `CouriNavigationProofs!NavigationImplementsFlow` | `ImplementsOrderFlow` |
| `FoodTrackerProofs!FoodTrackerSafe` | type, `RowsShowMeals`, `EnabledSaveSaves`, `SelectionTellsMode` |
| `FoodTrackerProofs!HintsTrue` | `ResetHinted` |
| `FoodTrackerProofs!SavesAsShown` | `SavedAsShown` |
| `FoodTrackerProofs!ImplementsList` | `ImplementsMealList` |
| `MenuDetailProofs!ScreenStaysConsistent`, `ChargeIsShown` | `ScreenConsistent`, `ChargeNotStale`, one by one |
| `CouriNavigationProofs!NothingTraps`, `StackStaysOrdered`, `ScrimStays` | `NoTrap`, `StackOrdered`, `ScrimDismissable` |
| `FoodTrackerProofs!FoodTrackerTyped`, `RowsStayInStep`, `SelectionTells` | type, `RowsShowMeals`, `SelectionTellsMode` |
| `AuthStateProofs!SessionTyped` | type |
| `AuthStateProofs!ChangesReachListener` | `NothingMissed` |
| `AuthStateProofs!KeychainFollows` | `DiskAgrees` |
| `AuthStateProofs!RefreshStaysArmed` | `ArmedWhileSaving` |
| `AuthStateProofs!NobodyStoredLate` | `NobodyComesBack` |
| `AuthStateProofs!ListenerIsFed` | the safety part of `ImplementsFeed` |
| `LockedMpscqProofs!QueueTyped`, `QueueNeverBreaks` | type, `ListUnbroken` |
| `LockedMpscqProofs!QueueIsFifo` | `ImplementsFifo` |
| `LockedMpscqProofs!EmptyOnlyUnlinked` | what does hold of an empty answer (see `empty_queue`) |
| `CombinerProofs!CombinerTyped`, `CombinerHasOneOwner`, `CombinerCountsRight`, `CombinerDiesEmpty` | type, `OneOwner`, `CountRight`, `DestroyedEmpty` |
| `CombinerProofs!CombinerSerializes` | `ImplementsSerializer` |
| `CombinerProofs!NothingStranded`, `FinalsNotForgotten` | the safety that `EveryClosureRuns` and `FinalsRunWhenQuiet` rest on |
| `GroupCommitProofs!StoreIsTyped`, `OnlyOneLogs` | type, `OneLogger` |
| `GroupCommitProofs!AckedNeverLost`, `SyncedNeverLost` | `AckedSurvive`, `SyncedSurvive`, if `MaxAppendFaults = 0` |
| `GroupCommitProofs!AckedAlwaysVisible` | `AckedVisible`, if `MaxCrashes = 0` or `MaxAppendFaults = 0` |
| `GroupCommitProofs!NoWakeupIsLost` | the safety that `EveryWriteReturns` rests on |
| `GroupCommitProofs!WhatIsReadSurvives` | what is read is in a log or a table, if `MaxAppendFaults = 0` |

Arguments:

- *Order screen.* `ScreenInv` is inductive: `IncreasedGood` and `DecreasedGood`
  show that each button keeps a consistent screen consistent and brings the
  total up to date. That the colour is gray exactly at one is what makes the
  two branches of `decreaseCount` meet, so `MinusUndoesPlus` follows from it.
- *Navigation.* `NavInv` joins the type, the order of the stack, the trail of
  selections and two facts the properties do not state: an order screen that is
  stacked is `Consistent`, and an animating or shown menu has a recognizer and
  no Transfer screen under it.
  The lemmas on ascending sequences (`Pushing`, `Popping`, `TopHighest`) say
  which screens can be below a given top; each action then has a lemma of its
  own. The refinement lemmas (`RowEnters`, `RowPicks`, `TransferBegins`, ...)
  map each tap to one step of `OrderFlow` or to a stutter.
- *FoodTracker.* `FoodInv` is the form's invariant (an enabled Save implies that
  the field is not being edited and that its text is not empty and equal to the
  title; the control is what its rating shows) together with the list's (rows
  are the table of the meals, the selection tells the mode, no row is selected
  while the list is on screen). Lemmas on `Append`, replacement and
  removal (`TableAppend`, `TableReplace`, `TableWithout`) carry `RowsShowMeals`.

- *Authentication.* `AuthInv` strengthens the properties by five facts the code
  relies on without saying so: no two user objects share a token (`Fresh`); only
  an object of the current user's identity can have the token announced last, and
  while the keychain works that is the current token (`Announced`); what the
  listener's block remembers is what it heard (`Remembered`); a token request
  belongs to a user object of this process (`Asked`); nothing is scheduled or
  fetched automatically before refresh is enabled (`Enabled`). Without
  `Announced`, coalescing by token could swallow a change.
- *Lock-free queue.* `QueueSound` (`MpscqProofs`) is `Shape`, which says how the
  cells from tail to head are linked and where the one cut may be for every pusher
  between its two stores, and `PopControl`, which ties the consumer's program
  counter to that shape. `ListUnbroken` alone is not inductive: the consumer's
  last step needs to know that the stub it pushed is behind the node it returns.
  `LockedMpscq` adds only that the mutex is held during a pop. In the refinement
  the exchange of the head enqueues, the consumer's advance of the tail dequeues
  and its return takes; the store that links a node, and whatever happens to the
  stub, stutter. `Items`, the queue as `Fifo` sees it, is the chain of cells
  without the stub; as the stub is in it at most once, `WithoutStub` cuts it out at
  its place, and the lemmas `WithoutAppended` and `WithoutTail` say what an exchange and
  an advance do to the rest without an induction.
- *Combiner.* `OneOwner` is not inductive without the count, since who leaves the
  combiner and who enters it is decided by what `state` was; and the count is not
  without knowing where every closure is. `CombinerInv` joins to `QueueSound` how
  far each call of `combiner_exec` is (`Calling`), who holds the combiner (`Holding`: one
  owner or one offload, exactly while something is counted), what the owner's
  stage says of the queue's consumer and the batch (`Staged`), that nobody calls an
  orphaned combiner (`Ending`), that a closure is scheduled while it is in exactly one
  of a call, the list, the consumer's hands, the final list and the batch (`Placed`),
  and that the count is the nodes in the list, plus the calls before their
  exchange, plus one each for a closure that runs and for a final list
  (`Counted`). `CombinerSerializes` then maps the exchange, the advance and the
  taking of the final list to steps of `Serializer`, the rest to stutters.
  `NothingStranded` and `FinalsNotForgotten` are read off the count: what is left
  for TLC is that an owner goes on.
- *Local store.* `QueueInv` says who may be where: nobody is queued twice, only
  the front writer is past its wait, a writer is idle exactly when it is not
  queued, and the group is still a prefix of the queue in which nobody wants a
  sync that its leader does not (`GroupLed`). `DataInv` follows a write from the
  log to a table: reported means logged or in a table (`Reported`), an older log
  holds only what the memtable being saved or a table has (`OldLogSaved`, why the
  old log may be deleted), the last log only what the memtable, a table or the
  group being inserted has, unless a sync failed (`LastLogHeld`), and a group being
  inserted is logged, and synced if its leader asked (`GroupLogged`). The lemmas on
  the data need that no append fails (`NothingTorn`): `torn_log` is what happens
  otherwise. `StoreIsTyped` and `OnlyOneLogs` hold with any faults.
  `AckedAlwaysVisible` is inductive beside them: a memtable only moves to the one
  being saved when that place is free, and from there to the tables, and a report
  is made by the step that inserts. Only a crash needs `DataInv`, because recovery
  reads back the logs; after both a torn record and a crash the property fails, as
  `torn_log` shows, so the condition of the theorem cannot be dropped.
  `NoWakeupIsLost` holds with any faults: `RoomWatched` says that the background thread is
  scheduled while there is work or a writer waits for room, as every way in which it
  can stop wakes that writer and schedules again. `WhatIsReadSurvives` follows the
  log ahead of the memtables (`MemLogged`), also for writes not yet reported.

Only model-checked:

- liveness (`EveryWriteReturns`, `PopReturns`, `EveryClosureRuns`,
  `FinalsRunWhenQuiet`, the fairness of `AuthFeed` in `ImplementsFeed`): the proofs
  have no `ENABLED`. What each of the first, third and fourth needs of the
  state, that nobody is left without somebody to wake or run it, is proved; that
  the one who can go on does so, and is done in finitely many steps, is not;
- that the instances are ones the assumptions allow and in which the interesting
  cases happen.

Every other property of the passing runs is a theorem.

## Not modelled

*Pods*. The C, C++ and Objective-C files under `src/Couri/Pods` are 511 thousand
lines, nearly all of the code the repository holds in those languages: BoringSSL,
Protobuf, the transports, parsers, generated tables and headers. Four components
of them, the ones above, are modelled because Couri depends on their concurrency
or persistence; their source files have some four thousand lines. No set of models of
reasonable size covers a third of half a million lines of mostly sequential
library code, and the share of the map over all of it stays small for that reason.

In the modelled components:

- *Authentication*: a keychain shared between applications, linking and profile
  updates, phone and email-link protocols (they end in the same two updates of
  the current user), removal of listeners (Couri removes none);
- *Queue and combiner*: weaker memory orders than sequential consistency; several
  combiners in one `ExecCtx`;
- *Local store*: reads and snapshots, tables below level 0 and when they are
  compacted first, compactions that many reads of a file cause, manual ranges, closing;
  a crash of the machine that loses an unsynced old log but keeps a later synced
  one leaves a gap, which contradicts no promise of `options.h` and no property.

In the applications:

- *Order customization*: the choices are shown and selected but never read, and
  `addedPrice` never reaches the total; what remains is how UIKit keeps the
  selection of nested cells it reuses, which is not in the repository;
- the Shop/Deliver switch (`down` repaints Home and flips a flag nothing reads),
  favorites (no callers), the welcome pages (nothing presents them, and each is a
  `ViewController` scene without outlets, whose `viewDidLoad` would trap on
  `tableView`), the courier picker (no segue leads to it), constant libraries and
  the application delegates;
- the self-sized menu table (`RestaurantDetailViewController.swift:181`), whose
  `maxHeight` could hide rows: pure layout over sizes UIKit provides.
