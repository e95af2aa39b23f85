# FastImage in TLA+

FastImage reads very large tiled images, possibly pyramids, through *views*: a tile with a halo
of `radius` pixels around it. A graph of tasks, each with its own threads, turns view requests
into finished views; users take them, work on them and release them. This directory holds a
model of that graph and of what surrounds it, the configurations that check it with TLC, and
proofs checked by TLAPS. Paths below are relative to `src/src/FastImage/`.

## 1. The system

| part | state | operations | correct when |
|---|---|---|---|
| tile cache `object/FigCache.h`, `data/CachedTile.h` | pool, LRU list, `_mapCache`, buffers with index, new-tile flag and mutex, cache mutex | `getLockedTile` (hit, miss, recycle) | list, pool, map and buffers agree; a tile handed out is that tile; the buffer in use is nobody else's; no deadlock between the two levels of mutexes |
| tile loader `api/ATileLoader.h`, `TileLoaders/` | the request a thread works on | `executeTask`, `copyTileToView`, `loadTileFromFile` | copies the tile it was asked for; every request is passed on |
| view memory `memory/`, `rules/ReleaseCountRule.h` | one pool of views per level, a release count per view | `getMemory`, `releaseMemory` | a view has one owner; it comes back after exactly the releases its level asks for |
| view loader `tasks/ViewLoader.h` | loop indices, rows and columns already filled | `executeTask` | one request per overlapped tile, each at its place in the view |
| view counter `tasks/ViewCounter.h` | `_countMap`, `_waitingList`, `_queueTraversals`, `_currentTraversal` | `executeTask`, `dataReady`, `handleStoredViews`, `fill`, `addTraversal`, `copy` | a view is sent when complete, once, in the order asked if so wished |
| request geometry `data/ViewRequestData.h`, `api/View.h` | none | index, fill and size computations | every pixel of a view is the nearest pixel of the image |
| FastImage object `api/FastImage.h` | `_finishRequestingViews`, feature counters | `requestTile`, `requestAllTiles`, `requestFeature`, `finishedRequestingTiles`, `getAvailableViewBlocking`, `isFeatureDone`, `isGraphProcessingTiles` | every view asked for comes out and then the graph ends |
| traversals `object/Traversal.h` | the spiral's walk | the five orders | each tile once |
| feature construction `FeatureCollection/Tasks`, `Data`, `tools/UnionFind.h` | blobs, to-do lists, union-find parents | `ViewAnalyser`, `BlobMerger` | the features are the connected components of the mask |
| feature collection `FeatureCollection/FeatureCollection.h`, `Feature.h`, `BoundingBox.h` | vector of features with bit masks, image size | construction from blobs, `addFeature`, `preProcessing`, `getFeatureFromPixel`, `getFeatureFromId`, `serialize`, `deserialize`, `operator==`, masks | a feature is found by its own pixels and by no other; files and masks show the features; the vector the tree stands for is left alone |
| lookup tree `FeatureCollection/tools/AABBTree.h`, `Cuboid.h`, `Vector2.h` | nodes with ranges of the vector and boxes | `preprocess`, `objectsContain` | finds what a search of all features finds |

How they interact. A user's call registers a traversal with the counter of level 0
(`addTraversal`, a plain call into another thread's state) and then sends one request per tile
into the graph. `DistributePyramidRule` routes it to the pipeline of its level: the view loader
waits for a free view and sends tile requests; a group of loader threads, which share one cache,
serves them; the counter collects them and emits finished views on the graph's output, from which
any user takes them. A release goes back to the view memory through a rule object made when the
view was taken.

What is hard about it: two levels of mutexes, the inner one waited for under the outer one; a
buffer marked as read before it is read; views that wait for their turn while they hold the
memory the next view needs; calls that are two steps to other threads' state; counts that must
match across tasks and levels; copies into one view by several threads without a lock; arithmetic
at the image's borders; counters shared by users; a tree of positions in a vector that belongs to
another object and is sorted again and again while the tree is built. `PROJECT.json` lists these hazards at their
lines with the properties that cover them, and says why where none does.

## 2. Modules

| module | models |
|---|---|
| `Lists` | the few sequence operators that the proofs are about |
| `FigCache` | the cache: state and steps of `getLockedTile`, without an `Init`/`Next` of its own |
| `ATileLoader` | loader threads on top of `FigCache`; type invariant, `Inv`, safety, liveness |
| `TileStore` | abstract: a store of the most recently used tiles, no locks, no buffers |
| `ViewMemory`, `ViewCounter` | the pools with their release rules; the counter of each level |
| `FastImage` | users, view loaders, loaders (as counts), counters and memory composed |
| `ViewService` | abstract: views wanted, made, taken, given back, within a capacity |
| `FastImageService` | `FastImage` with a history of what was promised, mapped to `ViewService` |
| `ViewRequestData` | the geometry of a request along one axis, and of a view's coordinates |
| `ViewAssembly` | the pixels of one view: the loops, the copies, the ghost region |
| `FeatureRequest` | the tiles of a feature, and workers that count its views |
| `Traversal` | the five traversal orders |
| `Blob`, `UnionFind` | a blob and its box; the forest of blobs |
| `ViewAnalyser` | the flood of a view, one turn of its loops per step, and the pixels its blobs touch in other tiles |
| `BlobMerger` | views analysed in any order, blobs gathered, united and merged into features |
| `Feature` | a feature: its box, the bits of its pixels, what it is written as |
| `AABBTree` | the lookup tree: building and searching it, one turn of the loops per step; `TreeSpec` is the tree with any user that keeps its promise |
| `FeatureCollection` | the collection: its calls on top of `AABBTree`, with a history of what was put in |
| `Segmentation` | `BlobMerger` and `FeatureCollection` composed: from a mask to its features, then the user's calls |
| `MC*` | small instances of the above |
| `CommonLemmas` | lemmas: lists without repetition; division and interval sizes |
| `*Proofs` | the theorems of section 5 |

### Correspondence with the code

*Cache and loaders.* Each loader thread is a process whose `pc` is its place in
`executeTask`/`getLockedTile`: `get` (about to take the cache mutex), `hit`, `take`, `recycle`
(holding it and waiting for a buffer's mutex), `check`, `load`, `time`, `copy` (holding the
buffer), `send`. Steps are as long as the code holds its locks; a wait for a buffer's mutex is a
separate step because other loaders run meanwhile. A buffer's content is the tile it was last read
from, or `Garbage`: `loadTileFromFile` ignores the result of `TIFFReadTile`, so a tile in
`Unreadable` may leave either. The unprotected `_timeDisk +=` is two steps. `getLockedTile` throws for
an index outside the image (FigCache.h:157-165); its callers are the loaders, whose requests
`ViewRequestData` keeps inside the image (`RequestsAreInPlace`), so the model has no such step.

*Graph.* The task graph library is external. It is assumed to be what `configure` relies on: queues
are FIFO; a view pool hands out the view that has been free longest and blocks when empty; level 0
runs the counter object given to it while the other levels run `copy()` of it; a task ends when its
input has ended and is empty, and the output ends with the last task. In `FastImage` the tile
requests of a view are a *number* (`toSend`, `asked`, `loaded`), because the loaders, several
threads on one queue, finish in any order and the counter only counts; which pixels they carry is
`ViewAssembly`'s subject and how they get them is `ATileLoader`'s. `Request` is the guarded part of
the three calls (the early return on `_finishRequestingViews`); `requestFeature` has no such guard
and its model makes no request after the end. `FinishedRequestingTiles` keeps the promise that the
comment above `finishedRequestingTiles` asks of its callers, "no more request will be done"
(FastImage.h:515): no user makes that call while another user's call still has requests to send. The
code does not look (:516-521), and what becomes of a request sent behind the end is the library's
matter, so that case is left out. `uses` is what the users still owe: they release each view as many
times as the option of its level says. The tiles that a view overlaps are counted as
`ViewRequestData` does, from the tiles the radius extends over in a column (`ReachHeight`) and in a
row (`ReachWidth`), which differ where tiles are not square; both are 0 when there is no radius.

`handleStoredViews` reads `_currentTraversal.front()` even when there is no traversal left (:227,
behind the last view of what was asked), which is undefined for an empty queue; the value read is
not used. `FrontTiles` is what `front()` may give: the first tile or, of an empty traversal, any tile
or none, and the steps that compare a view with it choose one. The runs therefore include a wrong
answer wherever a view could be compared with a traversal that is not there, and `ATraversalIsLeft`
proves that none is: while a view is made or stored, some traversal has a tile left.

*View assembly.* One view, two axes; the state of the two loops of `ViewLoader`, the set of tile
requests out, and for every pixel of the view which pixel of the image it shows (or `Stale`).
`Fill` composes the three loops of `fill` in their order. Unsigned arithmetic is exact here: for
images below 2^31 pixels a side none of the expressions wraps, the subtractions being guarded by
comparisons in the code.

*Features.* `FeatureRequest` has the loop the repository's README shows: request a feature, take
views until `isFeatureDone`. Its views come out in any order, once each, which is what `ViewService`
allows. `++` on the counter is two steps, since the mutex around it is local. Box and tile
arithmetic are the code's; a box that ends exactly on a tile's edge inside the image asks for one
row or column of tiles more than it needs, which the model shows and no property forbids.

*Traversals.* The loops of four orders are written as the sequences they append; the spiral, whose
end depends on its walk, is a state machine with one step per turn of its `while`.

*Feature construction.* A mask is the set of its foreground pixels, a blob is named by its first
pixel instead of its address. `StartBlob`, `SkipPixel` and `VisitNeighbour` are the turns of the
loops of `ViewAnalyser::executeTask`, with the neighbours reached (in the tile) and the pixels noted
(outside it) of either connectivity. In the ghost region a view shows the nearest pixel of the image
(proved in `ViewAssemblyProofs`), which `IsForeground` says. The analysers share nothing and the
merger does nothing but gather until it has everything, so views are analysed one at a time, in any
order. The merger's containers are ordered by address, so its steps are in any order too. `find` is
the least set closed under parents, its root, and the compression of that set, without recursion.

*Collection and tree.* A word of a bit mask is the set of its bits; `WordSize` is 32 in the code and
4 in the runs, `MaxNodeSize` 4 and 1. A node of the tree is a range of positions; when it is split
its range becomes empty, and the field `objects` remembers it for the properties. `std::sort` leaves
equal elements in any order, so a split chooses any order sorted by the middle coordinate. A box is
kept as the coordinates it spans, in each dimension: `computeAABBBounds` of no feature, whose minimum
is above its maximum, spans none, and a slot that `resize` adds spans the origin alone. `KeepNode`,
`SplitNode` and `EndLevel` are the turns of `preprocess`; `CheckInnerNode`, `CheckLeaf` and
`CheckObject` those of `objectsContain`. The calls of a collection begin when no other is going on:
one thread uses it. `preProcessing` and the constructors throw for an image without a size;
`deserialize` throws then too, but after it has appended the features, and that is what `Deserialize`
does. Masks are written in one step, since no other call can come between: `WrittenFromData` is the
label of the last feature that sets a pixel, and the pixels of a tile not loaded are zeros or
`Unknown`. A file is the sequence of the numbers written. Assumed of the inputs: boxes have an area
below 2^32, so that no 32-bit product wraps; identifiers are added once; files are read as they were
written (`deserialize` does not look at the state of its stream); a mask is written with a tile size
that is a power of two (it throws otherwise, except for 0, which passes the test at
FeatureCollection.h:386 and is left out) and for an image with a size (0 would wrap in
`getImageHeight() - 1`). Pointers to features that a user keeps across `preProcessing` or
`addFeature` are not modelled: both move the features.

*Composition.* `Segmentation` runs the analysers and the merger to the end, makes the collection from
the blobs in any order of the list, deletes the graph as the constructor does, and hands the
collection to the user.

## 3. Runs

| run | instance | what it shows |
|---|---|---|
| `tile_loader` | 3 loaders, 3 tiles, 2 buffers, 4 requests, one unreadable tile | coherence, no stale or foreign tile, stability of held buffers, refinement of `TileStore`, every request served |
| `fast_image_ordered` | 1 user, 2 calls of up to 3 tiles, a radius that reaches the next tile, 3 views, order kept | one place per view, exact counts, nothing left behind, refinement of `ViewService` in order, the graph ends |
| `fast_image_pyramid` | 2 users, 3 levels with 2, 1 and 0 releases per view, no order | release counts per level, refinement, end of the graph with dropped requests |
| `view_assembly` | images of 1 to 5 lines, tiles of 1 to 3, radius 0 to 3, every index | loops, rectangles, disjoint copies, ghost region, local coordinates |
| `feature_request` | one worker, two features, all boxes of a 5 by 4 image with tiles of 2 | tiles exist and cover the box, counts exact, no view left over, each feature ends |
| `traversals` | all images of up to 9 by 9 tiles, five orders | each tile once, neighbours, the spiral not shut in, the constructor returns |
| `feature_construction` | every mask of a 3 by 3 image with tiles of 2 by 2, connectivity 4 and 8; its collection asked for every pixel; for three masks three more calls that change it or its file | features are the connected components, counts and boxes right, no blob looked for in vain, ranks grow; each feature in one leaf, complete searches, right lookups, masks and files that show the features, a vector left alone (`KeepsTreePromise`: the composed system implements `TreeSpec`) |
| `ordered_two_users` | **violation** of `GraphCompletes` | two users and ordered output can block the graph |
| `ordered_pyramid` | **violation** of `ImplementsViewService` | ordered output is not ordered above level 0 |
| `feature_two_workers` | **violation** of `CountsViewsTaken` | an increment of the feature counter is lost |
| `feature_level` | **violation** of `RequestedTilesExist` | a feature at level 1 asks for tiles of level 0 |
| `blank_tiles` | **violation** of `MaskShowsFeatures` | a tile that no feature's box reaches is not written blank |

Why the bounds are enough to be interesting. `tile_loader` has fewer buffers than loaders and than
tiles, so pool, hit, wait on a busy hit, recycle and wait on a busy recycle all occur, and four
requests let a recycled tile be asked for again. `fast_image_ordered` needs six requests for three
views and three tiles of one to three parts, so memory runs out, views are stored, and chains of
stored views cross the end of a traversal. `fast_image_pyramid` has each count class: several
releases, one, none. The axes of `view_assembly` include a single tile, a partial last tile, a
tile larger than the image, and a radius below, at and above a tile and the image; rows and columns
only meet in `fill`'s corners and in rectangles, so fewer columns than rows suffice. Nine tiles a
side hold the Hilbert squares of 1, 2, 4 and 8 with every remainder on each side. The image of
`feature_construction` has whole and partial tiles, an inner corner where four tiles meet, and blobs
that touch three others; larger images (3 by 4 with tiles of 2 by 3) pass as well for construction alone. With words of four
bits a box of the whole image fills two words and a part of a third, and one of two by two fills
exactly one; with one feature per leaf the five features of a mask make a tree of four levels with
slots that no split has filled, and middles that are equal, so that sorting has a choice. `Studied`
holds a collection with no feature, one of one or two features whose boxes overlap, and one of three;
three calls (`MaxCalls`) reach a lookup between an `addFeature` and the next `preProcessing`, a file
read into the collection it was written from, and one written before the collection is replaced.
`MaxFeatures` lets any of them double.

Every property of a passing run comes with a mutant in `PROJECT.json`: a slip of the code, defined
next to the operator it replaces, which makes the run fail on that property.

Deadlock is checked except in `ordered_two_users`, where the block itself is the finding and is
shown as a liveness violation, and in the `FeatureRequest` configurations, whose workers stop after
the last feature.

### The five disagreements

* `addTraversal` (FastImage.h:553) and `sendRequest` (:554) are two steps. With the order kept,
  users A and B may register in the order A, B and send in the order B, A; with one view of memory
  B's view waits for A's, whose request waits for memory.
* `ViewCounter::copy` (ViewCounter.h:118) makes a counter with default options; only level 0 keeps
  the order.
* `incrementTileFeatureComputed` (FastImage.h:632) locks a mutex local to the call.
* `requestFeature` (FastImage.h:570-583) reads level 0's sizes for any level.
* `createLabeledMask` and `createBlackWhiteMask` (FeatureCollection.h:516, :682) pass the pointer to
  the vector object `emptyTile`, not to its data, to `TIFFWriteTile`: blank tiles hold the bytes of
  that object and what follows it in memory.

Met on the way and not counted as findings: `_timeDisk` can lose an addition (statistics only; the
definition `TimeDiskCountsEveryRead` says what it would have to satisfy and no run checks it); some
tests call `requestTile` with an older order of its arguments; `operator==` of collections is not
symmetric when a feature occurs twice (`FileShowsFeatures` is about collections without such);
copying a collection copies the tree's pointer to the first one's vector.

## 4. Fairness

`ATileLoader`: weak fairness of each thread's step. The operating system runs every thread that can
run; that a mutex is eventually obtained is *not* assumed beyond that, and with the finite request
list weak fairness is enough. `FastImage`: weak fairness of every task's step and of the users'
sending, taking and releasing; that the users take and release what is ready is what the library's
documentation asks of them, and without it a bounded memory must block. No fairness on starting
calls: a user may ask for less. `FeatureRequest`: weak fairness of each worker, none on requesting
another feature. `Traversal`: a loop goes on.

## 5. Proofs

All theorems are for arbitrary values of the constants under the named assumptions of the modules
(`...Assumption`: sets of threads finite where counted, sizes positive, and so on).

* `ATileLoaderProofs`: `Spec => []Inv` and from it type correctness, `CacheCoherent`,
  `CachedTilesAreLoaded`, `CopiesAskedTile`, the action property `HeldTileIsStable`, and the
  refinement `ImplementsTileStore`. None of the safety properties is inductive: what a loader copies
  is right because the buffer it holds is right, which needs to know what each mutex protects
  (`MutexesAgree`), that the choice made under the cache mutex is still right after the wait for
  the buffer (`ChoiceStillRight`), and that a buffer in the pool is new. The refinement maps the LRU
  list to the recent tiles; taking a buffer is a `Use`, recycling is `Evict` then `Use`, everything
  under the locks a stutter.
* `FastImageProofs`: `Spec => []Inv` for `Inv == TypeOK /\ OnePlacePerView /\ EveryTileIsCounted /\
  ReleaseCountsAgree`, which are inductive only together: a count stays in range because the view
  is in one place, a view is in one place because it is finished only at its last tile, and that is
  known from the counts. `ServiceInv` adds what relates the graph to the promises of its calls
  (`ServiceSpec` is `Spec` with that history). The balance: a tile is promised at a level as often as
  calls have still to send it, requests for it are queued, and views of it are being made or stored.
  The order: what is promised at level 0 is the counter's traversals one after the other
  (`Flattened`), so the next view of the traversals is the first promise. The store: a stored view is
  not the next one unless the counter is looking through its list, which is why a view that is told
  to wait is found again. The map has an entry for exactly the views with tiles missing, and the
  flags of the end are set only behind the last request. When the graph has ended nothing is on its
  way, so a stored view would be promised, hence some promise would be first and its view stored, and
  that one would be next (`NothingIsLeftBehind`). Since
  a view made or stored is promised, some traversal has a tile left to compare it with
  (`ATraversalIsLeft`). Each step is a step of `ViewService` or shows nothing of it (`Refinement`).
  These, and `ServiceInvariance`, assume `OrderIsOfLevelZero`: users who
  want the order ask for level 0 only. Without it they are false, since the copies of the counter for
  the other levels forget the option (`ordered_pyramid`); without the order option it assumes nothing.
* `ViewAssemblyProofs`: `LoopInv` (what has been sent are the requests of the tiles before the
  loops' indices, each at `DestOf`) is inductive; in-place and disjoint requests follow from the
  geometry of one axis, nearest pixels from the disjoint cover of the real lines and from the order
  of the three loops of `fill`, and the local coordinates from the nearest pixels.
* `FeatureRequestProofs`: for any number of workers the views counted, plus the increments under
  way, never exceed the views taken, so nobody leaves a feature early (`NoViewIsLeft`); coverage and
  existence of the tiles (the latter `ASSUME AskedLevels = {0}`, since it is false otherwise); with
  one worker (`ASSUME Worker = {w0}`) the count is exact.
* `TraversalProofs`: for an image of any size, what the spiral has not visited is the rest of the
  line it is on plus a rectangle beside it (`SpiralInv`). Hence it is never shut in, it goes from
  each tile to a neighbour, and when it ends it has visited each tile once. The naive order, the
  snake and the diagonals are lines joined: no line has a tile twice and no two share one, so neither
  has the whole (`FlattenOnce`, `ConcatOnce`), and it has all the tiles, hence as many as there are.
  The snake's next tile is beside it on its line, or below it where the line ends.
  Hilbert's curve of twice the side is four curves, turned as `rot` does, one in each quarter
  (`TurnIsQuarter`): the quarters share no tile, and each curve ends beside where the next begins
  (`CurveFills`). The snakes beside it and below it have what is not in its square. Sides are made by
  doubling, as in the code's loop, and the numbers have no width: an image has fewer than 2^32 tiles.
* `SegmentationProofs`, construction: for any image, any mask, both connectivities and any size of tiles, and
  whatever the order of views, blobs, unions and merges, the features are the connected components of
  the mask (`FeaturesAlwaysComponents`); a blob's count and box are those of its pixels at every step
  (`CountsAndBoxes`); and every pixel noted to merge has one blob, another one, when blobs are united
  (`NothingLookedForInVain`). The theorems are about `SegmentationSpec`, which the runs check. The
  invariant has a part for each stage. `LoopInv`: the foreground left lies in the pixels the loops
  have not come to, so a view that is sent has none. `BlobInv`: each pixel reached is of one blob,
  which counts it, and gathered blobs have all the foreground of the tiles analysed. `NotesInv`: a
  blob has noted exactly the foreground that its pixels look at. `ConnectionInv`: a blob is connected,
  and what is next to it in its tile is waiting to be visited, so two blobs of a tile are apart.
  `ForestInv`: parents and ranks are a forest whose ranks grow towards the roots, so `find` ends;
  compressing a path changes nobody's root, and linking two roots joins their trees (`UnionJoins`).
  `UnitedInv`: the pixels of a tree are connected, and what a blob looks at is in its tree or still
  on its list. With the geometry of neighbours in two tiles, of which one always looks at the other
  (`NextInOtherTile`), the trees are the components when the lists are empty (`ComponentsInv`), and
  merging keeps what a family has together. Paths are least closed sets and connected sets have no
  proper part apart from the rest, so no induction over data is needed.

* `FeatureCollectionProofs`, the tree: for any vector of features, any limit of a leaf's size, any
  order that sorting leaves and any pixel, the tree has every feature in one leaf
  (`TreeHasEveryFeature`) and a search returns all the features whose boxes contain the pixel and no
  other (`SearchIsComplete`). The inductive invariant `LookupInv` says how far the loop over a level
  has come (`LevelInv`), that ranges lie in the vector and that a split node's range is what `objects`
  remembers (`RangeInv`), that boxes span the features below them (`BoxInv`), that children share out
  their parent (`ChildrenInv`), that nodes of one level have nothing in common and a split only moves
  features within its own range (`ApartInv`) and that what has been found, with what lies below the
  nodes still to check, is what contains the pixel (`SearchInv`). `ApartInv` is what makes it
  inductive: sorting a range could invalidate the box of any node computed before, but each of those
  contains the range or lies apart from it. `TreeSpec` is about any user who keeps the promise of
  `ChangeVector`.
* `FeatureCollectionProofs`, the contents, and `SegmentationProofs`, the composition: for any mask,
  any features added by hand and any calls, the collection keeps that promise, reading a file included
  (`TreePromiseKept`), so the tree's theorems hold of the composed system (`TreeOfCollection`); what a
  lookup returns and what a mask or a file shows is right (`LookupsAreRight`, `WritingsAreRight`). The
  invariant `CollectionInv` adds to `LookupInv` that a feature stands for the pixels of its identifier
  (`StandsFor`: its box ends at some pixel on each side, its bits are those of the pixels), in the
  vector (`VectorInv`) and in the file (`FileInv`: it is what `serialize` makes of some vector of such
  features). Two pixels of a box never share a bit (`PixelOfBit`), so the bits give back exactly the
  pixels, and equal boxes and bits mean equal pixels, since one set of pixels has one box
  (`OneBoxSpans`). A file read gives the vector it was written from (`ReadsWhatIsWritten`): of the
  features read wrongly there would be a first one, and it is read from where the ones before it end.
  Sorting changes no set of identifiers (`SortedIds`). Assumed: the features that users add have at
  least one pixel and finitely many, and tiles have a size (`CollectionAssumption`). `CollectionInv` is
  inductive only together with the answer of the last call (`AnswerInv`), which the next one forgets.

Left to TLC: liveness (`EveryRequestIsServed`, `GraphCompletes`, `FeatureGetsDone`, `GetsBuilt`).
The prover handles neither `ENABLED` and liveness nor induction theorems with operator parameters,
which is why arguments along a sequence are made with a least counterexample (`LeastNumber`), and
`RECURSIVE` operators are not used at all.

## 6. Not modelled

Image decoding and pixel conversion (`TileLoaders`, I/O); timing statistics other than `_timeDisk`;
printing and the dot file; the task graph library itself; exceptions at construction; the text form
of a collection's file and the TIFF fields of a mask; the arithmetic of `Vector2` and `Cuboid` that
the tree does not use, and the distances and middles that nothing calls. Mixing `requestFeature` with
other requests, whose views the feature counter would count too, is not in the model: the graph and
the feature counters are checked apart. The unlocked access of users and counter to
`_queueTraversals` (ViewCounter.h:77, :206) is taken as atomic; its actual outcome is undefined, and
without the order option the queue only grows. A user who says that no more requests will be made
while another user's call is still making them breaks the contract of FastImage.h:515 and is not in
the model.

## 7. Plan

Done, in this order: cache and loaders; the graph; the view's pixels; features' views; traversals
and their proofs; feature construction and its proof; the lookup tree and its proof; the collection,
composed with construction, and the proof of the two together.
Next:

1. **Composition.** `FeatureRequest` over `FastImage` instead of over `ViewService`, with calls that
   mix requests (FastImage.h:455, :565).
