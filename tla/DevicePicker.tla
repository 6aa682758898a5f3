---------------------------- MODULE DevicePicker ----------------------------
(***************************************************************************)
(* The device list of the applications over Discovery.  The command line   *)
(* (app/cli/main.cc) reads it whenever it prints it.  The GTK window       *)
(* (cast_tab.cc, gui_app.cc) is told that the list changed and reads it    *)
(* again on its main thread; the main thread's own changes are announced   *)
(* to it at once (g_main_context_invoke).  The WinUI window                *)
(* (MainViewModel.cs) is told a count and reads the C API's copy           *)
(* (c_api.cc, cached_devices) one index at a time.  Each keeps a selection *)
(* that later casts go to.                                                 *)
(***************************************************************************)
EXTENDS Discovery

CONSTANTS
  Profiles,     \* <<front end, subnet_scan_enabled>>: the programs considered
  SavedDevices, \* what an earlier run may have saved
  MaxPosts      \* bound: ApplyDevices calls waiting for the UI thread; a
                \* further one takes the last one's place

ASSUME PickerAssumption ==
  /\ Profiles \subseteq {"cli", "gtk", "winui"} \X BOOLEAN /\ Profiles # {}
  /\ SavedDevices \subseteq [id : Ids, ip : Addresses] /\ MaxPosts \in Nat \ {0}
  \* The windows are considered with TVs that name themselves only.
  /\ Unnamed \in UNION {Reports[tv] : tv \in TVs} => Profiles \subseteq {"cli"} \X BOOLEAN

VARIABLES
  frontEnd,
  posts,        \* calls posted to the UI thread; the count each was given
  shownList,    \* devices_ of CastTab, Devices of MainViewModel
  selected,     \* selected_device_id_, SelectedDevice
  row,          \* the highlighted row of the list box (GTK)
  saved,        \* last_device_id and last_device_ip of the configuration;
                \* WinUI: _pendingLastDeviceId, None once it was selected
  adding,       \* the address the dialog is adding, or the device being removed
  cached,       \* cached_devices of the C API (WinUI)
  calling,      \* the threads in the C API between that and the client's call
  manual,       \* _manualDevices (WinUI)
  reading       \* ApplyDevices: the count of the last call, the index its loop
                \* is at (0: it is over) and what it has read so far

gtkVars == <<row, saved, adding>>
winVars == <<cached, calling, manual, reading>>
pickerVars == <<frontEnd, posts, shownList, selected, gtkVars, winVars>>
vars == <<discoveryVars, pickerVars>>

NotReading == [count |-> 0, next |-> 0, incoming |-> <<>>]
Item == [id : Ids, ip : Addresses]

TypeOK ==
  /\ DiscoveryTypeOK
  /\ <<frontEnd, scanEnabled>> \in Profiles
  /\ Range(posts) \subseteq Nat /\ Len(posts) <= MaxPosts
  /\ selected \in Ids \cup {None} /\ row \in Ids \cup {None}
  /\ saved \in Item \cup {None} /\ adding \in Ids \cup {None}
  /\ manual \subseteq Addresses /\ Range(cached) \subseteq Shown /\ calling \subseteq Actors
  /\ Range(shownList) \subseteq (IF frontEnd = "gtk" THEN Shown ELSE Item)
  /\ reading.next \in 0..(reading.count + 1) /\ Range(reading.incoming) \subseteq Item

Listed(ds) == {ds[i].id : i \in DOMAIN ds}

Init ==
  /\ \E profile \in Profiles : frontEnd = profile[1] /\ scanEnabled = profile[2]
  /\ DiscoveryInit
  /\ posts = <<>> /\ shownList = <<>> /\ selected = None
  /\ row = None /\ adding = None
  /\ saved \in {None} \cup SavedDevices
  /\ cached = <<>> /\ calling = {} /\ manual = {} /\ reading = NotReading


-----------------------------------------------------------------------------
\* GTK.

First(S) == CHOOSE i \in S : \A j \in S : i <= j

\* IndexOfPreferredDevice: by the id, else by the saved address, else the
\* first.
Preferred(ds, id, ip) ==
  LET byId == {i \in DOMAIN ds : ds[i].id = id}
      byIp == {i \in DOMAIN ds : ds[i].ip = ip}
  IN  ds[IF byId # {} THEN First(byId) ELSE IF byIp # {} THEN First(byIp) ELSE 1].id

\* Faulty Choice: a selection that left the list is kept.
ChoiceKept(ds, sel, last) == IF sel = None /\ ds # <<>> THEN ds[1].id ELSE sel

\* Whom RefreshDevices selects in the list ds, when sel was selected and last
\* is the saved device.
Choice(ds, sel, last) ==
  IF ds = <<>> THEN None
  ELSE IF sel \in Listed(ds) THEN sel
  ELSE Preferred(ds, IF sel # None \/ last = None THEN sel ELSE last.id,
                 IF last = None THEN None ELSE last.ip)

\* RefreshDevices: a list that is shown already changes nothing.
RefreshDevices(sel, last) ==
  LET ds == Listing(devices)
  IN  IF ds = shownList /\ ds # <<>>
        THEN selected' = sel /\ UNCHANGED <<shownList, row>>
        ELSE /\ shownList' = ds
             /\ selected' = Choice(ds, sel, last)
             /\ row' = selected'

Gtk == frontEnd = "gtk"

\* An announcement of another thread posts a refresh; waiting refreshes are
\* one, for each reads the list when it runs.
GtkPosted(t) ==
  /\ Gtk /\ t # AppThread
  /\ Announce(t)
  /\ posts' = <<0>>
  /\ UNCHANGED <<frontEnd, shownList, selected, gtkVars, winVars>>

\* One of the main thread's own refreshes it at once.
GtkAnnounced ==
  /\ Gtk
  /\ Announce(AppThread)
  /\ RefreshDevices(selected, saved)
  /\ UNCHANGED <<frontEnd, posts, saved, adding, winVars>>

GtkRefresh ==
  /\ Gtk /\ app = "idle" /\ posts # <<>>
  /\ posts' = <<>>
  /\ RefreshDevices(selected, saved)
  /\ UNCHANGED <<discoveryVars, frontEnd, saved, adding, winVars>>

\* TriggerRescan: a scan, and a refresh when its timer ends.
GtkRescan ==
  /\ Gtk /\ TriggerScan
  /\ posts' = <<0>>
  /\ UNCHANGED <<frontEnd, shownList, selected, gtkVars, winVars>>

\* OnDeviceRowSelected: not called for the row that is highlighted already.
GtkSelect ==
  /\ Gtk /\ app = "idle"
  /\ \E i \in DOMAIN shownList :
       /\ shownList[i].id \notin {row, selected}
       /\ selected' = shownList[i].id /\ row' = shownList[i].id
       /\ saved' = [id |-> shownList[i].id, ip |-> shownList[i].ip]
  /\ UNCHANGED <<discoveryVars, frontEnd, posts, shownList, adding, winVars>>

\* The dialog's Add: into the engine's list, with the announcement inside.
GtkAdd(a) ==
  /\ Gtk /\ app = "idle" /\ copy[AppThread] = None
  /\ AddOrUpdateDevice(AppThread, Device(a, a, TRUE))
  /\ adding' = a /\ app' = "added"
  /\ UNCHANGED <<environment, scanEnabled, running, mdnsIds, loopVars, probe,
                 frontEnd, posts, shownList, selected, row, saved, winVars>>

\* Then the selection, the saved device, and a refresh.
GtkAdded ==
  /\ Gtk /\ app = "added" /\ copy[AppThread] = None
  /\ saved' = [id |-> adding, ip |-> adding]
  /\ RefreshDevices(adding, saved')
  /\ adding' = None /\ app' = "idle"
  /\ UNCHANGED <<environment, scanEnabled, running, list, loopVars, probe, copy,
                 frontEnd, posts, winVars>>

\* IsSelectedDeviceRemovable.
Removable ==
  \/ \E i \in DOMAIN shownList : shownList[i].id = selected /\ shownList[i].custom
  \/ selected \notin Listed(shownList) /\ saved # None /\ selected \in {saved.id, saved.ip}

GtkRemove ==
  /\ Gtk /\ app = "idle" /\ copy[AppThread] = None
  /\ selected # None /\ Removable
  /\ RemoveDevice(AppThread, selected)
  /\ adding' = selected /\ app' = "removed"
  /\ UNCHANGED <<environment, scanEnabled, running, loopVars, probe,
                 frontEnd, posts, shownList, selected, row, saved, winVars>>

\* Then the saved device is forgotten, the selection cleared, and a refresh.
GtkRemoved ==
  /\ Gtk /\ app = "removed" /\ copy[AppThread] = None
  /\ saved' = IF saved # None /\ adding \in {saved.id, saved.ip} THEN None ELSE saved
  /\ RefreshDevices(None, saved')
  /\ adding' = None /\ app' = "idle"
  /\ UNCHANGED <<environment, scanEnabled, running, list, loopVars, probe, copy,
                 frontEnd, posts, winVars>>

-----------------------------------------------------------------------------
\* The command line: nobody listens to the list, option R rescans and option
\* A adds a device by its address.

Cli == frontEnd = "cli"

CliNext ==
  /\ Cli
  /\ \/ TriggerScan
     \/ \E a \in Addresses :
          /\ app = "idle" /\ copy[AppThread] = None
          /\ AddOrUpdateDevice(AppThread, Device(a, a, FALSE))
          /\ UNCHANGED <<environment, scanEnabled, running, mdnsIds, loopVars, probe, app>>
  /\ UNCHANGED pickerVars

GtkNext ==
  \/ GtkRefresh \/ GtkRescan \/ GtkSelect \/ GtkAdded \/ GtkRemove \/ GtkRemoved
  \/ \E a \in Addresses : GtkAdd(a)

-----------------------------------------------------------------------------
\* WinUI.

Win == frontEnd = "winui"

\* The C API takes the copy over, under its lock.
WinCached(t) ==
  /\ Win /\ copy[t] # None /\ t \notin calling
  /\ cached' = copy[t] /\ calling' = calling \cup {t}
  /\ UNCHANGED <<discoveryVars, frontEnd, posts, shownList, selected, gtkVars, manual, reading>>

\* Without the lock it calls the client with the length of the copy it was
\* given, and the client posts ApplyDevices with it.
WinPosted(t) ==
  /\ Win /\ t \in calling
  /\ Announce(t)
  /\ calling' = calling \ {t}
  /\ posts' = IF Len(posts) < MaxPosts THEN Append(posts, Len(copy[t]))
               ELSE [posts EXCEPT ![MaxPosts] = Len(copy[t])]
  /\ UNCHANGED <<frontEnd, shownList, selected, gtkVars, cached, manual, reading>>

\* castmirror_get_device_info: nothing is filled in for an index beyond the end.
GetDeviceInfo(r) ==
  [r EXCEPT !.next = @ + 1,
            !.incoming = IF r.next \in DOMAIN cached
                           THEN Append(@, [id |-> cached[r.next].id, ip |-> cached[r.next].ip])
                           ELSE @]

\* ApplyDevices(count) reads each index under the lock anew.  Taking the call
\* from the queue and the first read are one step, as nothing shared lies
\* between them.
WinApply ==
  /\ Win /\ app = "idle" /\ posts # <<>> /\ reading.next = 0
  /\ LET start == [count |-> Head(posts), next |-> 1, incoming |-> <<>>]
     IN  reading' = IF start.count = 0 THEN start ELSE GetDeviceInfo(start)
  /\ posts' = Tail(posts)
  /\ UNCHANGED <<discoveryVars, frontEnd, shownList, selected, gtkVars, cached, calling, manual>>

WinRead ==
  /\ Win /\ reading.next \in 1..reading.count
  /\ reading' = GetDeviceInfo(reading)
  /\ UNCHANGED <<discoveryVars, frontEnd, posts, shownList, selected, gtkVars, cached, calling, manual>>

\* The typed addresses that no device of the engine covers.
StillManual(incoming) == {a \in manual : \A i \in DOMAIN incoming : a \notin {incoming[i].id, incoming[i].ip}}

\* The last incoming entry of an id decides its address.
Updated(item, incoming) ==
  LET same == {i \in DOMAIN incoming : incoming[i].id = item.id}
  IN  IF same = {} THEN item ELSE incoming[CHOOSE i \in same : \A j \in same : j <= i]

\* The collection rebuilt: what is gone is removed, what is there updated, and
\* what is new appended.
Rebuilt(incoming) ==
  LET kept == Only(shownList, {i \in DOMAIN shownList : shownList[i].id \in Listed(incoming)})
      new == Only(incoming, {i \in DOMAIN incoming :
                /\ incoming[i].id \notin Listed(kept)
                /\ \A j \in 1..(i - 1) : incoming[j].id # incoming[i].id})
      all == kept \o new
  IN  [i \in DOMAIN all |-> Updated(all[i], incoming)]

\* The selection follows its address when its entry is gone, else the first.
Reselected(items) ==
  LET old == {i \in DOMAIN shownList : shownList[i].id = selected}
      sameIp == {i \in DOMAIN items : \E j \in old : items[i].ip = shownList[j].ip}
  IN  IF selected \in Listed(items) \/ items = <<>>
        THEN IF items = <<>> THEN None ELSE selected
        ELSE items[IF sameIp # {} THEN First(sameIp) ELSE 1].id

WinApplied ==
  /\ Win /\ reading.next = reading.count + 1
  /\ manual' = StillManual(reading.incoming)
  /\ LET typed == SetToSeq({[id |-> a, ip |-> a] : a \in manual'})
     IN  shownList' = Rebuilt(reading.incoming \o typed)
  /\ IF saved # None /\ saved.id \in Listed(shownList')
       THEN selected' = saved.id /\ saved' = None
       ELSE selected' = Reselected(shownList') /\ UNCHANGED saved
  /\ reading' = [reading EXCEPT !.next = 0, !.incoming = <<>>]
  /\ UNCHANGED <<discoveryVars, frontEnd, posts, row, adding, cached, calling>>

\* AddDeviceByIp: the window's own list only.
WinAdd(a) ==
  /\ Win /\ app = "idle" /\ reading.next = 0
  /\ IF a \in Listed(shownList) THEN UNCHANGED <<shownList, manual>>
     ELSE shownList' = Append(shownList, [id |-> a, ip |-> a]) /\ manual' = manual \cup {a}
  /\ selected' = a
  /\ UNCHANGED <<discoveryVars, frontEnd, posts, gtkVars, cached, calling, reading>>

\* RemoveManualDevice.
WinRemove(a) ==
  /\ Win /\ app = "idle" /\ reading.next = 0 /\ a \in manual
  /\ manual' = manual \ {a}
  /\ shownList' = Only(shownList, {i \in DOMAIN shownList : shownList[i].id # a})
  /\ selected' = IF selected # a THEN selected
                 ELSE IF shownList' = <<>> THEN None ELSE shownList'[1].id
  /\ UNCHANGED <<discoveryVars, frontEnd, posts, gtkVars, cached, calling, reading>>

WinSelect ==
  /\ Win /\ app = "idle" /\ reading.next = 0
  /\ \E id \in Listed(shownList) \ {selected} : selected' = id
  /\ UNCHANGED <<discoveryVars, frontEnd, posts, shownList, gtkVars, winVars>>

\* RescanDevices.
WinRescan == Win /\ reading.next = 0 /\ TriggerScan /\ UNCHANGED pickerVars

\* CastEngine::StartCasting of a typed address: a worker enters it in the
\* engine's list unless it is there.
WinCast ==
  /\ Win /\ app = "idle" /\ copy[AppThread] = None
  /\ selected \in Addresses
  /\ \A i \in DOMAIN devices : selected \notin {devices[i].id, devices[i].ip}
  /\ AddOrUpdateDevice(AppThread, Device(selected, selected, FALSE))
  /\ UNCHANGED <<environment, scanEnabled, running, mdnsIds, loopVars, probe, app, pickerVars>>

WinNext ==
  \/ WinApply \/ WinRead \/ WinApplied \/ WinSelect \/ WinRescan \/ WinCast
  \/ \E a \in Addresses : WinAdd(a) \/ WinRemove(a)

-----------------------------------------------------------------------------

\* CastEngine::StartCasting finds a device by its id, else by its address,
\* else takes an address as it is, else falls back to the saved device.
Resolves(id) ==
  \/ \E i \in DOMAIN devices : id \in {devices[i].id, devices[i].ip}
  \/ id \in Addresses
  \/ saved # None /\ id = saved.id

\* Each program's callback.
Announced(t) ==
  \/ Cli /\ Announce(t) /\ UNCHANGED pickerVars
  \/ GtkPosted(t)
  \/ t = AppThread /\ GtkAnnounced
  \/ WinCached(t) \/ WinPosted(t)

\* The windows stop discovery when the program ends, the command line and its
\* engine before.
Next ==
  \/ (Loop \/ Stopped \/ \E p \in Probers : Probe(p)) /\ UNCHANGED pickerVars
  \/ (Start \/ Started \/ (Cli /\ Stop)) /\ UNCHANGED pickerVars
  \/ Environment /\ UNCHANGED pickerVars
  \/ \E t \in Actors : Announced(t)
  \/ CliNext \/ GtkNext \/ WinNext

\* Threads run, the loop's 30 s end again and again, and entries grow old.
Fairness ==
  /\ WF_vars(Loop /\ UNCHANGED pickerVars)
  /\ SF_vars(Sweep /\ UNCHANGED pickerVars)
  /\ \A i \in 1..Cardinality(Addresses) : WF_vars(Ages(i) /\ UNCHANGED pickerVars)
  /\ WF_vars((\E p \in Probers : Probe(p)) /\ UNCHANGED pickerVars)
  /\ WF_vars((Started \/ Stopped) /\ UNCHANGED pickerVars)
  /\ \A t \in Actors : WF_vars(Announced(t))

Spec == Init /\ [][Next]_vars
FairSpec == Spec /\ Fairness

-----------------------------------------------------------------------------

\* While every TV keeps its address, the list the loop, the probes and the
\* user's additions write into, under different ids for one TV, or none, never
\* holds a TV twice (AddOrUpdateDevice).
UniqueEntries ==
  \A i, j \in DOMAIN devices : i # j =>
    /\ devices[i].id # devices[j].id \/ devices[i].id = Unnamed
    /\ devices[i].ip # devices[j].ip

\* Stop joins the loop and the probe: once it has returned, neither runs nor
\* has anything left to announce.  The detached probe of TriggerScan may.
StoppedQuiet ==
  ~running /\ app = "idle" =>
    /\ loop = "off" /\ copy[LoopThread] = None
    /\ \A p \in Probers : p = "subnet" =>
         probe[p].pc = "off" /\ \A a \in Addresses : copy[<<p, a>>] = None

Quiet ==
  /\ \A t \in Actors : copy[t] = None
  /\ calling = {} /\ posts = <<>> /\ app = "idle" /\ reading.next = 0

\* The devices of the C API's copy that the last ApplyDevices asked for.
AskedFor == {cached[i].id : i \in {j \in DOMAIN cached : j <= reading.count}}

\* When nothing is announced, posted or being read, the GTK window shows the
\* engine's list, and the WinUI window the typed addresses and as many devices
\* of the C API's copy as the last ApplyDevices was given, none of an older
\* copy, although it reads the copy index by index while it changes.
FrontEndAgrees ==
  Quiet => /\ Gtk => shownList = Listing(devices)
           /\ Win => Listed(shownList) = AskedFor \cup manual

\* Violated: the count of the last call may be that of an older copy, which
\* another thread was given before and announced after.
RowsComplete == Quiet /\ Win => Listed(cached) \subseteq Listed(shownList)

\* "Match on the address as well as the id: a manual entry's id is the typed
\* IP, while mDNS reports the device's UUID for the same TV."
\* (MainViewModel.cs:1106): no TV ends up in two rows.
OneRowPerTV ==
  Quiet => \A i, j \in DOMAIN shownList : i # j => shownList[i].ip # shownList[j].ip

\* A cast goes to the selection: when nothing is under way, StartCasting finds
\* it, although its entry may have been renamed, expired or overwritten by any
\* other thread since it was selected.  WinUI can only promise it for the copy
\* the C API keeps (see CopyIsCurrent).
SelectionCastable ==
  Quiet /\ (Win => cached = Listing(devices)) /\ selected # None => Resolves(selected)

\* "Only touch the selection when the user's device disappeared."
\* (MainViewModel.cs:1140): ApplyDevices changes the selection only when the
\* device it selects is not in the engine's list.
SelectionKept ==
  [][WinApplied /\ selected # None /\ selected' # selected /\ UNCHANGED saved =>
       \A i \in DOMAIN cached : cached[i].id # selected]_vars

\* The display that is highlighted is the one a cast goes to.
HighlightSelected == Quiet /\ Gtk => row = selected

\* With no announcement on its way, the C API's copy is the engine's list.
CopyIsCurrent == Win /\ (\A t \in Actors : copy[t] = None) => cached = Listing(devices)

\* "so a TV that was switched off leaves the list" (device_discovery.h:51):
\* while discovery runs on, a TV that is switched off for good does not stay
\* listed under an id that mDNS reported.
SilentLeaves ==
  \A tv \in TVs :
    <>[](running /\ where[tv] = None) => <>[](tv \in Listed(devices) => tv \notin mdnsIds)

\* Stop returns: the threads it joins notice it whatever they are doing, and
\* none of them waits for the thread that joins.
StopReturns == app = "stopping" ~> app = "idle"
=============================================================================
