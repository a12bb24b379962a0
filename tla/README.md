# Formal models of conky's X11 integration layer

This directory holds TLA+ models of the X11 layer of conky
(`src/src/output/x11.cc`) and of its i8k reader
(`src/src/data/hardware/i8k.cc`). It also holds the TLC configurations that
model-check them and the TLAPS proofs of their main invariants. `PROJECT.json`
lists the components, the runs, the mutants, the map from each definition to
the source lines it translates, the findings, the hazards and the theorems.

## The system

conky draws a text overlay on an X display. The X11 layer is single-threaded
and event-driven. Every call is a blocking round-trip to the X server, and
other clients run concurrently with conky, above all the window manager (WM).
Its parts:

| Part | Code | What it does |
|------|------|--------------|
| Display session | `init_x11`, `deinit_x11`, `x11_error_handler` | Opens the display, resets the desktop cache, installs error handlers, reads the resource DB and the workarea, and fills the desktop cache. |
| Resource DB | `update_x11_resource_db` | Re-reads `RESOURCE_MANAGER` under `XLockDisplay`. |
| Geometry/Workarea | `update_x11_workarea` | Takes the screen size or the Xinerama head's rectangle. |
| Desktop/virtual-root resolver | `VRootWindowOfScreen`, `find_desktop_window(_impl)` | Finds the window that stands for the desktop. |
| Overlay window | `x11_init_window`, `set_transparent_background`, `get_argb_visual` | Creates the window, sets WM hints and the input masks. |
| Struts | `set_struts` | Reserves a screen edge for dock and panel windows. |
| Input propagation | `propagate_x11_event`, `propagate_xinput_event`, `ev_to_mask`, `query_x11_windows*`, `x11_atom_window_list` | Forwards input that conky does not consume to the window beneath it. |
| Desktop-state cache | `get_x11_desktop_info` and its readers | Caches `_NET_CURRENT_DESKTOP`, `_NET_NUMBER_OF_DESKTOPS`, `_NET_DESKTOP_NAMES` and the current desktop's name, refreshed on `PropertyNotify`. |
| Printers | `print_desktop*`, `print_monitor*`, key and mouse printers, i8k printers | Format cached values into a buffer. |

Data flows through these parts in this order:

1. The session fills the workarea and the cache.
2. The resolver finds the desktop window.
3. The overlay window is created as a child of the desktop window or of the root, and the struts are set.
4. The event loop then hands each `PropertyNotify` to the cache and each unconsumed input event to the propagation code.

## Modules

### DesktopCache (`DesktopCache.tla`)

This module models `get_x11_desktop_info` (x11.cc 1031-1068), its three readers (950-1012) and the name derivation (1015-1029), together with the cache reset in `init_x11` (266-271). The model has two kinds of state.

Server state:

- `atomsExist`: whether the WM has interned the `_NET_*` atoms.
- `srvCurrent`, `srvNumber`, `srvNames`: the root properties. `Bad` stands for a value that fails the type, format or count check.
- `pending`: the queue of `PropertyNotify` events for conky.

Conky's state:

- `atoms`: the three static atoms.
- `current`, `number`, `allNames`, `name`: the fields of `info.x11.desktop`.
- `phase`: `down`, then `reading` while `get_x11_desktop_info(0)` runs before `XChangeWindowAttributes`, then `up`.

The actions are:

- `WMSetCurrent`, `WMSetNumber`, `WMSetNames`: the WM writes a property.
  - This interns the atom.
  - It queues a notification only once conky has selected `PropertyChangeMask`.
  - A write during `reading` is recorded in `missed`.
- `InitX11`: interns the atoms with `only_if_exists`, then reads the three properties and derives the name.
- `SelectRootPropertyMask`: the tail of the initial call.
- `HandleCurrent`, `HandleNumber`, `HandleNames`, `HandleOther`: the else-if chain on the notified atom.

The conversions are modelled as the code does them:

- `prop[0]` of a format-32 property read through `unsigned char *` is the low byte, `LowByte(v) = v % 256`.
- The name is the run of bytes ending at the k-th NUL. A list with no such NUL leaves the name unchanged.

`DesktopCacheAbstract.tla` states what the cache promises, without atoms, events or phases. It has two variables: `root`, the three root properties, and `cache`, the cached fields. It has two actions:

- `Write(p, v)`: the WM writes one property.
- `Refresh(P)`: the cache re-reads the properties of a set `P` from the root as it is at that step, decoding each with `Decode`.

`DesktopCache` instantiates it as `AbstractCache`. The mapping is:

- `root` is the record of `srvCurrent`, `srvNumber` and `srvNames`.
- `cache` is the record of `current`, `number` and `allNames`.
- `Decode` is `Decoded`: a CARDINAL's low byte, plus one for the 1-based current desktop; a non-empty name list as it is; a missing or malformed property leaves the field.

Under this mapping:

- A WM write is `Write`.
- `InitX11` is `Refresh` of all three properties.
- Each handler is `Refresh` of its own property.
- The mask selection and `HandleOther` are stutters.

`ImplementsAbstractCache` (`AbstractCache!Spec`) is the refinement property.

### DesktopResolver (`DesktopResolver.tla`)

This module models the resolver that `x11_init_window` runs (486-495): `VRootWindowOfScreen` (208-240), the two calls of `find_desktop_window_impl` (910-937) made by `find_desktop_window`, and `update_x11_workarea` (331-370) between them. The window tree is a constant (`Kids`, bottom to top, and `Size`, abstracted to the display's size, a head's size or another size). The WM's changes are variable: `alive` and `mapped`.

The impl is a sequence of steps (`pc`), because each `XQueryTree` and `XGetWindowAttributes` is a round trip and the WM may act in between:

1. `VRoot` reads `_NET_VIRTUAL_ROOTS` through `x11_atom_window_list` (`AtomWindowList`). Its format test against `XA_WINDOW` makes the list always empty, so the root is always `RootWindowOfScreen`. The branch that dereferences a null `cardinal` is kept and ends in `crashed`.
2. `QueryTree` asks for the children of `win`. On failure (`win` was destroyed) `children` and `n` keep what they held. At level 0 that is an uninitialised value (`fault = "uninit"`). At a later level it is the array freed at the level before, which is freed again (`fault = "double_free"`).
3. `CheckChild` tests one child per step against `Matches`, and the first match wins.
4. `FreeKids` is `XFree(children)`, the `j == n` break and the bound of 10 levels (`MaxLevels`).
5. `UpdateWorkarea` picks the display or the `head_index`-th Xinerama head. Then the second call starts from the first call's result.

`WMMap`, `WMUnmap` and `WMDestroy` are the WM's steps, bounded by `MaxWM`. The history variable `quiet` says that the WM took no step after the resolution began.

### WindowSetup (`WindowSetup.tla`)

This module extends `DesktopResolver` and models the rest of `x11_init_window` (496-909) and `set_transparent_background` (413-446). Once the resolver is `done`, `InitWindow` takes one step. The configuration, the build flags (`Builds`: ARGB, XInput, mouse events, XShape, XFixes) and the server's answers are read inside that single call, so they are chosen with `\E` in that step. The step does the following:

- `haveArgb` is set when `use_argb_visual` is on and `get_argb_visual` finds a visual. Like `have_argb_visual`, it is never reset.
- `xwin` is the window `XCreateWindow` makes (`OwnWindow`):
  - An override window goes under `window.desktop` and is lowered.
  - A managed window goes under `window.root`. A dock is moved to the origin. `WM_HINTS` carries the input flag (not undecorated) and the initial state (Withdrawn for docks and panels under fluxbox).
  - The input region (`InputShape`) is the uninitialised rectangle of the utility branch, or the empty region of an undecorated window when the server has the shape extension.
  - The properties (`WindowProps`) are the window type, then `HintCalls` of each set hint in the code's order, applied by the server's Replace/Append semantics (`ApplyCall`).
  - `valid` records whether the parent still existed.
- Without `own`, conky draws to `window.desktop`.
- `masks` holds the core mask (`InputMask`) and the XInput masks on the root and on the window (`XIRootMask`, `XIWinMask`).

`SetTransparentBackground` takes the ARGB branch, the pseudo-transparency walk or the opaque branch. `BgHop` is one iteration of the walk: it sets `ParentRelative`, then calls `XQueryTree`. When the window was destroyed, the call fails, `parent` is left unchanged and `children` is freed uninitialised (`bgFault`). Conky's window dies with its parent (`ConkyAlive`).

### InputPropagation (`InputPropagation.tla`)

This module models how conky forwards an input event it does not consume to the window beneath it. It covers:

- `propagate_x11_event` (1546-1601) and `propagate_xinput_event` (1505-1543);
- `ev_to_mask` (1469-1502);
- `query_x11_windows` with its eager tree walk (1649-1694) and `x11_atom_window_list` (1627-1647);
- the hit-test loop of `query_x11_windows_at_pos` (1727-1750).

The window tree is a constant (`Parent`, `Geom`, `Hinted` for the windows that carry `WM_HINTS`). The server state that the WM changes between conky's round trips is variable: `exists`, `viewable`, `stack` and the published client lists `wmLists`.

Propagation is a sequence of steps (`pc`), because every query is a separate round trip and the WM acts in between:

1. `Receive` takes an event and decides whether it is forwardable (`Forwardable`/`Ignore`).
2. `QueryWindows` enumerates the candidate windows: the client lists when `x11_atom_window_list` returns them, otherwise the eager walk `Walk` when `Eager` is set.

   `propagate_x11_event` (1577-1579, and its caller at 1515) calls `query_x11_windows_at_pos` without the `eager` argument. Its default, `false`, is declared in `x11.h`, which is outside `src/`, and spec 4.5 makes the walk opt-in. The format test at 1638 also empties every client list. So in conky as it is, the enumeration is always empty, the hit-test loop never runs, and every core event goes to `window.desktop`. `Eager` is a constant so that the model can also check the opt-in mode of `query_x11_windows_at_pos`. Only `propagation_pass` sets it.
3. `HitTest` tests one window per step. A window destroyed meanwhile makes `XGetWindowAttributes` and `XTranslateCoordinates` fail. The model then keeps the stale `attr` and takes an arbitrary `pos` from `Coords`, which is what the code's unchecked results give.
4. `Forward` removes conky's own window (`Hits`), picks `below.back()`, translates the coordinates (`CoreCoords`, `XICoords`) and sends.

`Destroy`, `SetMapped` and `Raise` are the WM's actions. `top` records, at `Receive`, the window that really is topmost under the pointer (`Topmost`).

### Struts (`Struts.tla`)

This module models `set_struts` (1151-1390). Its state is:

- the window's geometry, alignment and WM;
- the static `is_wide_window` and the compiler's guard of it (`wideInit`, `isWide`);
- the `_NET_WM_STRUT` and `_NET_WM_STRUT_PARTIAL` values (`strut`, `partial`).

`SetStruts` keeps both early returns (no strut atom; a middle alignment under a cutout-capable WM), the cutout branch (`CutoutSizes`) and the generic branch (`GenericSizes`). Each branch is built from the four bands the code repeats: `LeftBand`, `RightBand`, `TopBand`, `BottomBand`. `Write` is the two `XChangeProperty` calls, the second only when the partial atom exists. `Resize` changes the geometry between calls, as the callers do when the text or the configuration changes.

### I8k (`I8k.tla`)

This module models `update_i8k` and every printer of `src/src/data/hardware/i8k.cc`. The driver's line is a sequence of its ten fields (the `dell-smm` format `"%s %s %s %d %d %d %d %d %d %d\n"`), and an empty sequence means that `/proc/i8k` is missing. The model works on fields, not on bytes:

- `Tokens` is the effect of the ten `strtok` calls. Empty fields give no token, the closing newline stays on the last token, and calls past the last token give `Null`. The k-th token is the field at `TokAt(line, k)`, the place where the count of non-empty fields up to it (`NonEmpty`) reaches k. This is written with `Cardinality` and not with a recursive operator, so that the module can be reasoned about with TLAPS. The empty field is named `Empty`.
- `UpdateI8k` keeps the early return on a failed `fopen`, which leaves the pointers as they were. It also keeps the logged-only `fread` failure, which leaves ten null tokens.
- The printers keep their null checks, or the lack of them: `print_i8k_cpu_temp` and `print_i8k_ac_status` pass the token to `sscanf`, which crashes on `nullptr` (`Crash`). An uninitialised `int` after a failed `sscanf` is any value of `Garbage`.
- `out` records each printer's text together with the line it was printing from, a history variable the property reads.

## Runs

The runs of `MC_DesktopCache` use this instance:

- Two name bytes `a` and `b`.
- Name lists that cover the cases the derivation distinguishes:
  - a well-formed list `a\0b\0`;
  - a last name without its NUL `a\0b`;
  - an empty first name `\0a\0`;
  - the empty list.
- CARDINAL values `{0,1,2}`.
- At most 3 WM writes (`MaxChanges`).

Three writes are enough for every order of a write before init, a write during `reading`, and a write after selection, each followed by its handler. Initial states include the WM having or not having created its atoms.

| Run | Checks | Shows |
|-----|--------|-------|
| `desktopcache_pass` | `TypeOK`, `CacheFresh`, `NameDerived`, `ImplementsAbstractCache` | Every handled property is cached with its root value, except writes in `missed`. The name is always the one the list gives the index, when the list has one. Every step implements `DesktopCacheAbstract`: the cache changes only by decoding the root's current values. The mutant of this property drops the check that `_NET_DESKTOP_NAMES` holds an item, so an empty list replaces `all_names`. `CacheFresh` does not see that mutant, because it constrains only non-empty lists. |
| `desktopcache_lost_update` | `NoUpdateLost` (violated) | A write between the reads and the mask selection is never notified. |
| `desktopcache_late_wm` | `TracksLateWM` (violated) | A WM that interns its atoms after conky started is never followed. |

Deadlock checking is off for this model: once the WM has made its writes and every notification is handled, the real program waits for events forever.

All runs check safety only, on `Spec` without fairness. No liveness property is stated. Every handler consumes its event by construction, so a property that the queue drains would hold however the handlers were written.

Three limits of these properties:

- `CacheFresh` exempts the properties in `missed` and requires resolved atoms. So it cannot catch the two hazards it is listed against, the lost write at 1050 and the late WM at 1041. The violation runs `desktopcache_lost_update` and `desktopcache_late_wm` show those instead.
- In `MC_DesktopResolver`, the precondition `quiet` of `ResolvesLikeDescent` excludes every behaviour in which the WM acts during the resolution. So this property does not cover the interleaving hazard at 922.
- `I8k`'s `Meant` reuses `AcWord`, the code's own mapping. So `PrintsLastRead` cannot catch a wrong word in that mapping.

The case of a name list whose last name lacks its NUL (`a\0b`) is a hazard in `PROJECT.json`. Switching to desktop 2 then keeps the previous name. `NameDerived` states this behaviour, and `CurrentName` models it.

The runs of `MC_InputPropagation` use a root, a desktop window, conky's window `k` and two overlapping clients `c1` and `c2`. Geometries are chosen so that the pointer at (1,1) is over `c1` and `c2`, and the pointer at (2,2) is on `c1`'s exclusive right edge and inside `k`. The violation run uses the interior point only, where the code's inclusive bounds and exclusive bounds agree. The XInput path's different target is recorded as a hazard. With two events and two WM actions, every order of a destroy, unmap or raise against the enumeration, the hit tests and the send is reached.

| Run | Checks | Shows |
|-----|--------|-------|
| `propagation_pass` | `TypeOK`, `NeverTargetsOverlay` | With `Eager = TRUE`, the opt-in mode that conky never requests, no event is sent back to conky's window, whatever the WM does between round trips. |
| `propagation_lists_ignored` | `ForwardsToTopmost` (violated) | `x11_atom_window_list` tests `actual_format` against `XA_WINDOW`, so the WM's lists always read as empty and the event goes to the desktop. |

The runs of `MC_DesktopResolver` use a root `r` with three children bottom to top: an override-redirect overlay `o`, a display-sized `a`, and a display-sized `b` that starts unmapped. `a` holds a head-sized `h`. Xinerama is active with the first head the size of `h`, and `_NET_VIRTUAL_ROOTS` lists `a`. So the first call must skip `o` and pick `a`, and the second call must pick `h` or stay on `a`, depending on whether `XineramaQueryScreens` answers. Two WM steps are enough to destroy `a` after it was chosen, or to map `b` or unmap `a` before the test.

| Run | Checks | Shows |
|-----|--------|-------|
| `windowsetup_pass` (module `MC_WindowSetup`) | `ResolvesLikeDescent`, `HintsAdditive`, `InputSelectedOnce`, `ParentRelativeChain` | If the WM does not act, `window.desktop` is the two-stage first-match descent from the root that spec 4.3 describes, whatever the round trips in between. The checks of the window setup are described below. |
| `resolver_double_free` | `OnlyQueriedChildren` (violated) | When `a` is destroyed after the first call chose it, `XQueryTree` at level 1 of the first call fails. The impl then reads and frees again the array it freed at level 0. |

The passing run is made on the composed model `MC_WindowSetup` (below), which runs the resolver to its end before it creates the window. The violation run uses the resolver alone.


`MC_WindowSetup` adds the following to the resolver's screen:

- hint sets that share `_NET_WM_STATE` and `_WIN_LAYER`;
- a build with ARGB, XInput, mouse events, XShape and XFixes, and a build with mouse events and XShape only;
- two WMs (fluxbox and another);
- every window type.

It adds three properties:

- `HintsAdditive` (spec 8): on a managed window, each hint property holds, as a bag, exactly the values the set hints write one at a time. Its mutant writes the sticky state with `PropModeReplace`.
- `InputSelectedOnce`: core motion is never selected together with `XI_Motion`, and core buttons never together with XInput buttons, so no event reaches the handlers twice. Its mutant takes the motion fallback whether or not XInput succeeded.
- `ParentRelativeChain`: when no window changed, a finished walk has set `ParentRelative` on conky's window and exactly its ancestors below the root. For an override window, that includes the file manager's desktop window. Its mutant never advances `parent`.

The model also reaches two unchecked behaviours, listed as hazards. In the first, the desktop window is destroyed between the resolution and `XCreateWindow`: the window is then not valid, and the walk frees uninitialised `children` (`bgFault`). In the second, a build with XInput runs on a server without XInput, and conky selects no button events at all.

The runs of `MC_Struts` use an 8x6 display and five geometries: two on screen (one thin, one wide), one at the right, and two partly off the screen (negative `y`; `x + w` past the right edge). They use four alignments (a corner, two middles of an edge, the centre) and three WMs: `kwin` (cutout), `i3` (cutout, always wide) and `openbox` (generic). Three calls with resizes in between reach a first call on a thin window followed by calls on a wide one.

`StrutsClamped` and `StrutCoversWindow` say nothing about which edge is chosen. `AxisStable` is an action property about the static `is_wide_window`. The comment at 1224 gives its purpose ("so we don't jump between axes for corner alignments"), and so does spec 4.4 ("to avoid flip-flopping"). Under a WM that honours cutouts, no call replaces a band at the left or right by one at the top or bottom, or the reverse, however the window was resized in between. Its mutant drops the `static`, so the orientation is recomputed on every call. A `TOP_LEFT` window that is thin at its first call and wide at its second then moves from a left band to a top band. Two comments of `set_struts` promise more than the code does, and both are recorded as hazards rather than as properties:

- The comment at 1175-1179 says the code picks the side that takes the least space. The generic branch picks the axis from the window's aspect, so a 2x3 window at the top of an 8x6 screen reserves a 5x6 right band where a 3x8 top band would do.
- The comment at 1226 says wide windows prefer the top or bottom. The static `is_wide_window` is fixed at the first call, as the comment at 1224 intends, so a window that grows wide later keeps its side strut.

| Run | Checks | Shows |
|-----|--------|-------|
| `struts_pass` | `StrutsClamped`, `StrutCoversWindow`, `AxisStable` | Every value written lies within the display, including for off-screen windows. The band reserved contains the window when the window lies on the screen. Under a cutout WM, the reservation never changes axis. |

The runs of `MC_I8k` use two lines of one machine: fans off and high with AC on, and a fan error with AC off. They use one printer of each kind. `${i8k_buttons_status}` is left out, because it prints the newline that ends the driver's line (a hazard in `PROJECT.json`). Two driver changes and three updates cover load, unload, a changed line and a failed `fread`.

| Run | Checks | Shows |
|-----|--------|-------|
| `i8k_pass` | `PrintsLastRead` | Each printer shows what the driver meant by its own field of the last line read, also while the driver is unloaded. |
| `i8k_null_deref` | `NoNullDeref` (violated) | With the driver absent at the first update, `print_i8k_cpu_temp` passes `nullptr` to `sscanf`. In the shortest trace, the printer runs before any update. Conky's first update always comes before the first print, and the trace that goes through a failed first update is one step longer. |

A driver line with an empty serial (`strtok` skips the empty field and shifts every later field) is a hazard in `PROJECT.json`. `Tokens` models that skip.

Deadlock checking is off in every model. The resolver stops at `done` or `crashed`. Propagation and the i8k reader wait for events or the next update forever, and `set_struts` is idle between resizes.

Each property of a passing run has a mutant in `PROJECT.json`: a plausible bug in one mapped definition, which TLC must catch under the run's own configuration.

## Proofs

`DesktopCache_proofs.tla` proves two theorems for every value of the constants that satisfies `DesktopCacheAssumptions`:

- `TypeCorrect`: `Spec => []TypeOK`.
- `CacheFreshCorrect`: `Spec => []CacheFresh`.

`CacheFresh` is inductive relative to `TypeOK`:

- A WM write either puts its property into `pending` or `missed`, or happens while `phase = "down"` (lemma `NotifyExempts`). In the `up` phase, the appended queue's element set is the old set plus the property (lemma `AppendElems`).
- A handler removes only the head of the queue (lemma `TailElems`), and it re-reads exactly the property it removes.

The type proof rests on two lemmas:

- `SegmentType`: the derived name is a byte string, by a cardinality bound on the segment.
- `ReadCurrentType`: the cached index stays in 1..256.

`Struts_proofs.tla` proves, for every display size and every set of geometries that satisfy `StrutsAssumptions`:

- `TypeCorrect`: `Spec => []TypeOK`.
- `StrutsClampedCorrect`: `Spec => []StrutsClamped`.

`TypeOK /\ StrutsClamped` is inductive. The argument rests on four lemmas:

- `BandsClamped`: each of the four bands is clamped slot by slot, from the bounds of `Clamp` and `ExceptClamped`.
- `SizesChoice`: both branches compute one of the bands or `Zero`.
- `ComputedClamped`: whatever either branch computes is therefore clamped.
- `WriteClamped`: a write of clamped sizes keeps both properties clamped, since the four edges go to `_NET_WM_STRUT` and the partial property gets all twelve.

`DesktopCache_proofs.tla` also proves:

- `NameDerivedCorrect`: `Spec => []NameDerived`. The property is inductive by itself. `InitX11`, `HandleCurrent` and `HandleNames` change the list or the index, and each of them sets the name with `CurrentName` of the new pair (lemma `DerivedByCurrentName`). No other step touches the three fields. No fact about `NulCount` is needed, because the proof never looks inside `Segment`.
- `RefinesAbstractCache`: `Spec => ImplementsAbstractCache`, the refinement of `DesktopCacheAbstract`. `InitRefines` maps the initial states. `NextRefines` maps each step to its abstract step or to a stutter. It needs the invariant `RInv`, checked by TLC before it was proved, with two parts:
  - `DownBlank`: before `init_x11`, the cache holds its reset values and no event is queued. Without it, `init_x11`'s reads "from 1, 1, empty" would not be a refresh of the cached fields.
  - `NoAtomsBad`: while the WM has interned no atom, no property exists. Without it, `init_x11` with unresolved atoms, which leaves the reset values, would not be a refresh.

  The lemmas it rests on:
  - `RefreshStep`: a step that re-reads some properties is `Refresh` of that set, by extensionality on the record.
  - `DecodedReads`: the code's readers decode as `Decoded` does.

`Struts_proofs.tla` also proves:

- `StrutCoversWindowCorrect`: `Spec => []StrutCoversWindow`. `StrutCoversWindow` is not inductive. The proof strengthens it with `PartialFromLast`: the partial strut is `NoProp`, or the partial atom exists and the strut is one of the `Bands` of `lastGeom`. TLC checked `PartialFromLast` on the `struts_pass` instance, with the partial atom present and absent, before the proof. Three lemmas carry the argument:
  - `NextPartialFromLast`: both branches write a band of `geom` and set `lastGeom` to `geom` (`SizesChoice`). Without the partial atom, the property stays `NoProp`.
  - `OnScreenClamps`: for an on-screen window, clamping changes no coordinate.
  - `BandCovers`: each band of an on-screen window covers it. The right and bottom bands are empty only for a window of zero width or height at the far edge, and then no edge is reserved.
- `AxisStableCorrect`: `Spec => AxisStable`, an action property. The proof rests on three lemmas:
  - `CutoutFrom`, an inductive invariant. Without the partial atom, nothing is written. Under a cutout WM, a written partial strut is `CutoutSizes(lastGeom, align, isWide)`, and the static's guard `wideInit` is set. So later calls reuse `isWide`.
  - `CutoutAxis`: whether `CutoutSizes(g, a, wide)` reserves along the vertical or the horizontal axis depends on `a` and `wide` only (`VertSel`), never on the geometry `g`. `BandAxes` gives each band its axis.
  - `AxisStep`: from `CutoutFrom`, a call writes either nothing (an early return) or `CutoutSizes(geom, align, isWide)`, so it stays on the axis of the previous write.

  The mutant without the `static` breaks `CutoutFrom`, because `isWide` is recomputed from `geom`.

`I8k_proofs.tla` proves:

- `PrintsLastReadCorrect`: `Spec => []PrintsLastRead`, under the hypothesis `DriverFormat`. It has two parts:
  - every line in `Lines` is a `DriverLine`: its ten fields are non-empty, and its four `%d` fields are numbers;
  - `${i8k_buttons_status}` is not in `Used`.

  The first part is what the driver's format writes. Without it, an empty serial shifts every later field, which is the empty-serial hazard. The second part leaves out the one variable whose token keeps the newline, which is the newline hazard. TLC checks both parts on the `MC_I8k` instance. `PrintsLastRead` is not inductive, because a printer's word comes from `tok`. The invariant `IInv` adds three facts:
  - `DrvInv`: the driver publishes only lines of `Lines`.
  - `TokInv`: either no line was read and every token is `Null`, or `tok` is `Tokens` of the line `lastRead` names.
  - `OutInv`: `out` is defined on every field, and only used printers have run.

  TLC checked `IInv` on the `i8k_pass` instance before it was proved. The lemmas:
  - `TokensFull`: on a line with no empty field, the k-th token is the k-th field, and only the tenth keeps the newline. This uses `FS_Interval` through `PrefixCard`, and `LineLen`.
  - `FanWordOf`: the fan printer shows the status word of 0, 1 or 2, and "error" for any other number, 3 included.
  - `MeantOf` and `TokOf`.
  - `WroteKeeps`: a printer that writes `Meant` of its field keeps the invariant. Each printer's step then reduces to that word (`FanStep`, `CpuStep`, `AcStep`, `StringStep`). In the `sscanf` garbage branches, the token is not a number, which `TokOf` excludes after a successful read. A null token crashes, and a crash writes nothing.

`WindowSetup_proofs.tla` proves:

- `InputSelectedOnceCorrect`: `SetupSpec => []InputSelectedOnce`, for every build, configuration and outcome of the XInput checks that satisfy `SetupAssumptions`. The property is inductive by itself, because only `InitWindow` changes the masks and it runs once. `CoreMaskFacts` says that `input_mask` holds motion only when XInput does not work, and buttons only when XInput is not built in. `XIMaskFacts` says that the window's XInput mask never holds motion. The root's XInput mask is empty unless XInput works.

## Only model-checked

TLC checks these properties and they are not proved:

- `InputPropagation`'s properties. That module declares the recursive `Walk`, and tlapm cannot use its SMT backend in a module that reaches a `RECURSIVE` operator.
- `ResolvesLikeDescent`, `ParentRelativeChain` and `HintsAdditive`. Each states what a recursive definition computes over the whole window tree or hint set: the descent of `Descend`, the closure `Under` that `ReflexiveTransitiveClosure` builds by iterating over `Cardinality(Win)` steps, and the bag `FoldSet` adds up. A proof for every tree or hint set needs induction over that data, and the library's induction theorems take an operator parameter that no installed prover instantiates. `OnlyQueriedChildren` is violated (a finding), so there is nothing to prove.

## Not modelled

- Opening the display, the error handler's message formatting, and the printers. These are I/O and string formatting.
- The double-buffer swaps. Each is a single server call.

- `freebsd.h` holds declarations only.
- The byte-level 128-byte buffer of `update_i8k`. The driver's line is a 3-character version, the BIOS version, a serial of at most 16 characters and seven integers, far below 128 bytes.

- The resource DB. `update_x11_resource_db` only replaces a string under a display lock.
- In the window setup: the strings (class, title, `argv`), the background pixel and colormap values, the XInput device cache, and the geometry read back when drawing to the desktop. `destroy_window` only frees client-side resources and zeroes the record. The spec creates the window once per session, so no re-creation is modelled.
