---------------------------- MODULE DeviceProofs ----------------------------
(***************************************************************************)
(* Theorems about Device, for any number of descriptors and however often  *)
(* the device is unplugged and plugged in.                                 *)
(***************************************************************************)
EXTENDS Device, TLAPS

Opening == {"isatty", "tcgetattr", "tcsetattr"}

\* Where the thread is tells whether the device is open; a descriptor that the
\* object holds is its own, and refers to a line once isatty() has said so.
Holding ==
  /\ m_open <=> pc \in {"work", "restore", "close"} \cup Calls
  /\ m_open \/ pc \in Opening =>
       m_fd \in Fds /\ fds[m_fd] \in Lines \cup {NoTty}
  /\ m_open \/ pc \in Opening \ {"isatty"} => fds[m_fd] \in Lines

\* What is plugged in next is new to every descriptor.
LinesPast ==
  /\ path = "line" => line # 0
  /\ \A fd \in Fds : fds[fd] \in Lines => fds[fd] <= line

\* The former settings are known while their line is there.
Saved == (m_open \/ pc = "tcsetattr") /\ Alive(m_fd) => m_oldSettings = "theirs"

DInv == DeviceTypeOK /\ Holding /\ LinesPast /\ Saved /\ HeldOnce /\ RawWhileOpen

LEMMA DInvInit == Init => DInv
<1> SUFFICES ASSUME Init PROVE DInv
  OBVIOUS
<1> USE DeviceAssumption
    DEF Init, Lines, Fds, Calls, Alive
<1>1. DeviceTypeOK
  <2>1. m_open \in BOOLEAN
    OBVIOUS
  <2> QED
    BY <2>1 DEF DeviceTypeOK
<1>2. \A fd \in Fds : fds[fd] = Unused /\ Unused \notin Lines
  OBVIOUS
<1>3. Holding /\ LinesPast /\ Saved /\ HeldOnce /\ RawWhileOpen
  BY <1>2 DEF Holding, Opening, LinesPast, Saved, HeldOnce, RawWhileOpen
<1> QED
  BY <1>1, <1>3 DEF DInv

\* The parts of DInv that a step must be shown to keep.
LEMMA OutsideStep == ASSUME DInv, Outside PROVE DInv'
<1> USE DeviceAssumption DEF DInv, DeviceTypeOK, outside, object, Fds, Lines
<1>1. CASE Plug
  <2>1. /\ line' = line + 1 /\ path' = "line" /\ settings' = "theirs" /\ line < MaxPlugged
        /\ UNCHANGED <<fds, m_open, m_fd, m_oldSettings, pc, next>>
    BY <1>1 DEF Plug
  <2>2. \A fd \in Fds : fds[fd] # line'
    BY <2>1 DEF LinesPast
  <2>3. \A fd : ~Alive(fd)'
    BY <2>1, <2>2 DEF Alive
  <2>4. DeviceTypeOK'
    BY <2>1
  <2>5. Holding' /\ LinesPast'
    BY <2>1 DEF Holding, LinesPast
  <2>6. Saved' /\ HeldOnce' /\ RawWhileOpen'
    BY <2>1, <2>3 DEF Saved, HeldOnce, RawWhileOpen
  <2> QED
    BY <2>4, <2>5, <2>6
<1>2. CASE Unplug \/ File
  <2>1. /\ path' \in {"none", "file"}
        /\ UNCHANGED <<line, settings, fds, m_open, m_fd, m_oldSettings, pc, next>>
    BY <1>2 DEF Unplug, File
  <2>2. Holding' /\ LinesPast'
    BY <2>1 DEF Holding, LinesPast
  <2>3. Saved' /\ HeldOnce' /\ RawWhileOpen'
    BY <2>1 DEF Saved, HeldOnce, RawWhileOpen, Alive
  <2> QED
    BY <2>1, <2>2, <2>3
<1>3. CASE OthersOpen \/ OthersClose
  <2>1. PICK fd \in Fds :
          /\ fds[fd] \in {Unused, Others}
          /\ fds' = [fds EXCEPT ![fd] = Others] \/ fds' = [fds EXCEPT ![fd] = Unused]
    BY <1>3 DEF OthersOpen, OthersClose, Lowest
  <2>2. UNCHANGED <<path, line, settings, m_open, m_fd, m_oldSettings, pc, next>>
    BY <1>3 DEF OthersOpen, OthersClose
  <2>3. /\ \A d \in Fds : d # fd => fds'[d] = fds[d]
        /\ fds'[fd] \notin Lines \cup {NoTty} /\ fds'[fd] # line
        /\ fds[fd] \notin Lines \cup {NoTty}
        /\ fds' \in [Fds -> {Unused, Others, NoTty} \cup Lines]
    BY <2>1
  <2>4. \A d : Alive(d)' => Alive(d)
    BY <2>2, <2>3 DEF Alive
  <2>5. m_open \/ pc \in Opening => m_fd # fd
    BY <2>3 DEF Holding
  <2>6. Holding' /\ LinesPast'
    BY <2>2, <2>3, <2>5 DEF Holding, LinesPast, Opening
  <2>7. m_open \/ pc \in Opening => (Alive(m_fd)' <=> Alive(m_fd))
    BY <2>2, <2>3, <2>5 DEF Alive
  <2>8. Saved' /\ HeldOnce' /\ RawWhileOpen'
    BY <2>2, <2>4, <2>7 DEF Saved, HeldOnce, RawWhileOpen, Opening
  <2> QED
    BY <2>2, <2>3, <2>6, <2>8
<1> QED
  BY <1>1, <1>2, <1>3 DEF Outside

Locations ==
  {"openDevice", "isatty", "tcgetattr", "tcsetattr", "work", "restore", "close",
   "idle", "gone"} \cup Calls

\* A step of the service thread that changes nothing but pc and next, and finds
\* the object as it is expected where the thread goes.
LEMMA CallStep ==
  ASSUME DInv, UNCHANGED <<path, line, settings, fds, m_open, m_oldSettings>>,
         m_fd' = m_fd \/ (m_fd' = 0 /\ pc' = "openDevice" /\ ~m_open /\ pc = "openDevice"),
         next' \in {"openDevice", "idle", "gone"}, pc' \in Locations \ {"close"},
         pc # "close",
         m_open <=> pc' \in {"work", "restore"} \cup Calls,
         pc' \in Opening => pc = "isatty" /\ fds[m_fd] \in Lines /\ pc' = "tcgetattr",
         pc \in Opening /\ pc' \notin Opening => ~Alive(m_fd)
  PROVE  DInv'
<1> USE DEF DInv, Calls
<1>1. DeviceTypeOK'
  BY DEF DeviceTypeOK, Locations
<1>2. Holding' /\ LinesPast'
  BY DEF Holding, LinesPast, Opening, Lines, Fds
<1>3. Alive(m_fd)' => Alive(m_fd)
  BY DEF Alive, Fds
<1>4. \A fd : Alive(fd)' <=> Alive(fd)
  BY DEF Alive, Fds
<1>5. Saved'
  BY <1>3 DEF Saved, Opening
<1>6. HeldOnce'
  BY <1>4 DEF HeldOnce, Opening, Fds
<1>7. RawWhileOpen'
  BY <1>3, <1>4 DEF RawWhileOpen
<1> QED
  BY <1>1, <1>2, <1>5, <1>6, <1>7

LEMMA OpenStep == ASSUME DInv, Open PROVE DInv'
<1> USE DeviceAssumption DEF DInv
<1>1. ~m_open /\ pc = "openDevice"
  BY DEF Open, Holding, At, Calls
<1>2. PICK fd \in Fds : /\ fds[fd] = Unused /\ m_fd' = fd
                        /\ fds' = [fds EXCEPT ![fd] = IF path = "line" THEN line ELSE NoTty]
  BY <1>1 DEF Open, Lowest
<1>3. pc' = "isatty" /\ UNCHANGED <<path, line, settings, m_open, m_oldSettings, next>>
  BY <1>1 DEF Open, At, outside
<1>4. path = "line" => line \in Lines
  BY DEF LinesPast, DeviceTypeOK, Lines
<1>5. fds'[fd] \in Lines \cup {NoTty} /\ \A d \in Fds : d # fd => fds'[d] = fds[d]
  BY <1>2, <1>4 DEF DeviceTypeOK
<1>6. DeviceTypeOK'
  BY <1>2, <1>3, <1>4 DEF DeviceTypeOK, Lines
<1>7. Holding'
  BY <1>1, <1>2, <1>3, <1>5 DEF Holding, Opening, Calls
<1>8. LinesPast'
  BY <1>2, <1>3, <1>5, <1>4 DEF LinesPast, Lines, DeviceTypeOK
<1>9. \A d \in Fds : ~Alive(d)
  BY <1>1 DEF HeldOnce
<1>10. \A d \in Fds : d # fd => ~Alive(d)'
  BY <1>3, <1>5, <1>9 DEF Alive
<1>11. Saved' /\ HeldOnce' /\ RawWhileOpen'
  BY <1>1, <1>2, <1>3, <1>10 DEF Saved, HeldOnce, RawWhileOpen, Alive, DeviceTypeOK
<1> QED
  BY <1>6, <1>7, <1>8, <1>11

LEMMA TcgetattrStep == ASSUME DInv, Tcgetattr PROVE DInv'
<1> USE DeviceAssumption DEF DInv
<1>1. /\ pc = "tcgetattr" /\ pc' = "tcsetattr"
      /\ UNCHANGED <<path, line, settings, fds, m_open, m_fd, next>>
      /\ m_oldSettings' = IF Alive(m_fd) THEN settings ELSE m_oldSettings
  BY DEF Tcgetattr, At, outside
<1>2. ~m_open /\ (Alive(m_fd) => settings = "theirs")
  BY <1>1 DEF Holding, RawWhileOpen, Alive, DeviceTypeOK, Calls
<1>3. \A fd : Alive(fd)' <=> Alive(fd)
  BY <1>1 DEF Alive, Fds
<1>4. Alive(m_fd)' <=> Alive(m_fd)
  BY <1>1 DEF Alive, Fds
<1>5. DeviceTypeOK'
  BY <1>1, <1>2 DEF DeviceTypeOK
<1>6. Holding' /\ LinesPast'
  BY <1>1, <1>2 DEF Holding, LinesPast, Opening, Calls, Lines, Fds
<1>7. Saved'
  BY <1>1, <1>2, <1>4 DEF Saved
<1>8. HeldOnce' /\ RawWhileOpen'
  BY <1>1, <1>2, <1>3, <1>4 DEF HeldOnce, RawWhileOpen, Fds
<1> QED
  BY <1>5, <1>6, <1>7, <1>8

LEMMA TcsetattrStep == ASSUME DInv, Tcsetattr PROVE DInv'
<1> USE DeviceAssumption DEF DInv
<1>1. /\ pc = "tcsetattr" /\ pc' = "work" /\ m_open'
      /\ UNCHANGED <<path, line, fds, m_fd, m_oldSettings, next>>
      /\ settings' = IF Alive(m_fd) THEN "raw" ELSE settings
  BY DEF Tcsetattr, At
<1>2. m_open' \in BOOLEAN
  BY DEF Tcsetattr
<1>3. ~m_open /\ (path = "line" => settings = "theirs")
  BY <1>1 DEF Holding, RawWhileOpen, DeviceTypeOK, Calls
<1>4. \A fd : Alive(fd)' <=> Alive(fd)
  BY <1>1 DEF Alive, Fds
<1>5. Alive(m_fd)' <=> Alive(m_fd)
  BY <1>1 DEF Alive, Fds
<1>6. DeviceTypeOK'
  BY <1>1, <1>2 DEF DeviceTypeOK, Calls
<1>7. Holding' /\ LinesPast'
  BY <1>1 DEF Holding, LinesPast, Opening, Calls, Lines, Fds
<1>8. Saved'
  BY <1>1, <1>5 DEF Saved
<1>9. HeldOnce'
  BY <1>1, <1>4 DEF HeldOnce, Fds
<1>10. RawWhileOpen'
  BY <1>1, <1>3, <1>5 DEF RawWhileOpen
<1> QED
  BY <1>6, <1>7, <1>8, <1>9, <1>10

LEMMA RestoreStep == ASSUME DInv, Restore PROVE DInv'
<1> USE DeviceAssumption DEF DInv
<1>1. /\ pc = "restore" /\ pc' = "close"
      /\ UNCHANGED <<path, line, fds, m_open, m_fd, m_oldSettings, next>>
      /\ settings' = IF Alive(m_fd) THEN m_oldSettings ELSE settings
  BY DEF Restore, At, object
<1>2. m_open /\ (Alive(m_fd) => m_oldSettings = "theirs")
  BY <1>1 DEF Holding, Saved
<1>3. \A fd : Alive(fd)' <=> Alive(fd)
  BY <1>1 DEF Alive, Fds
<1>4. Alive(m_fd)' <=> Alive(m_fd)
  BY <1>1 DEF Alive, Fds
<1>5. DeviceTypeOK'
  BY <1>1, <1>2 DEF DeviceTypeOK, Calls
<1>6. Holding' /\ LinesPast'
  BY <1>1, <1>2 DEF Holding, LinesPast, Opening, Calls, Lines, Fds
<1>7. Saved' /\ HeldOnce'
  BY <1>1, <1>2, <1>3, <1>4 DEF Saved, HeldOnce, Fds
<1>8. RawWhileOpen'
  BY <1>1, <1>2 DEF RawWhileOpen, DeviceTypeOK
<1> QED
  BY <1>5, <1>6, <1>7, <1>8

LEMMA ShutStep == ASSUME DInv, Shut PROVE DInv'
<1> USE DeviceAssumption DEF DInv
<1>1. /\ pc = "close" /\ pc' = next /\ fds' = [fds EXCEPT ![m_fd] = Unused]
      /\ m_fd' = 0 /\ ~m_open'
      /\ UNCHANGED <<path, line, settings, m_oldSettings, next>>
  BY DEF Shut, At, outside
<1>2. m_open' \in BOOLEAN
  BY DEF Shut
<1>3. m_open /\ m_fd \in Fds /\ next \in {"openDevice", "idle", "gone"}
  BY <1>1 DEF Holding, DeviceTypeOK
<1>4. /\ fds'[m_fd] \notin Lines /\ \A fd \in Fds : fd # m_fd => fds'[fd] = fds[fd]
      /\ fds' \in [Fds -> {Unused, Others, NoTty} \cup Lines]
  BY <1>1, <1>3 DEF DeviceTypeOK, Lines
<1>5. \A fd \in Fds : ~Alive(fd)'
  BY <1>1, <1>3, <1>4 DEF Alive, HeldOnce, LinesPast, DeviceTypeOK, Lines
<1>6. DeviceTypeOK'
  BY <1>1, <1>2, <1>3, <1>4 DEF DeviceTypeOK
<1>7. Holding'
  BY <1>1, <1>3 DEF Holding, Opening, Calls
<1>8. LinesPast'
  BY <1>1, <1>3, <1>4 DEF LinesPast, Lines, Fds
<1>9. Saved' /\ HeldOnce' /\ RawWhileOpen'
  BY <1>1, <1>3, <1>5 DEF Saved, HeldOnce, RawWhileOpen, DeviceTypeOK, Lines, Fds
<1> QED
  BY <1>6, <1>7, <1>8, <1>9

\* close(), wherever the thread goes on.
LEMMA CloseStep ==
  ASSUME DInv, NEW there \in {"openDevice", "idle", "gone"}, Close(there),
         pc \in {"openDevice", "work", "idle"} \cup Calls
  PROVE  DInv'
<1>1. /\ UNCHANGED <<path, line, settings, fds, m_open, m_oldSettings, m_fd>>
      /\ IF m_open THEN pc' = "restore" /\ next' = there ELSE pc' = there /\ next' = next
  BY DEF Close, outside, object
<1>2. next' \in {"openDevice", "idle", "gone"} /\ pc' \in Locations \ {"close"}
  BY <1>1 DEF DInv, DeviceTypeOK, Locations
<1>3. m_open <=> pc' \in {"work", "restore"} \cup Calls
  BY <1>1 DEF DInv, DeviceTypeOK, Calls
<1>4. pc # "close" /\ pc \notin Opening /\ pc' \notin Opening
  BY <1>1 DEF Opening, Calls
<1> QED
  BY <1>1, <1>2, <1>3, <1>4, CallStep

\* The calls that leave everything but the place of the thread alone.
LEMMA KeepStep ==
  ASSUME DInv,
         \/ IsTerminal \/ NoTerminal \/ Valid \/ WriteDone \/ PollTimeout
         \/ PollReady \/ ReadEOF \/ ReadByte \/ LeaveIdle \/ (Open /\ m_open)
  PROVE  DInv'
<1> USE DEF KeepAll, At, outside, object
<1>1. UNCHANGED <<path, line, settings, fds, m_open, m_oldSettings, m_fd, next>>
  BY DEF IsTerminal, NoTerminal, Valid, WriteDone, PollTimeout, PollReady, ReadEOF,
         ReadByte, LeaveIdle, Open
<1>2. next' \in {"openDevice", "idle", "gone"}
  BY <1>1 DEF DInv, DeviceTypeOK
<1>3. CASE IsTerminal
  <2>1. pc = "isatty" /\ pc' = "tcgetattr" /\ Alive(m_fd)
    BY <1>3 DEF IsTerminal
  <2>2. fds[m_fd] \in Lines
    BY <2>1, DeviceAssumption DEF DInv, DeviceTypeOK, LinesPast, Alive, Lines
  <2> QED
    BY <1>1, <1>2, <2>1, <2>2, CallStep DEF Locations, DInv, Holding, Opening, Calls
<1>4. CASE NoTerminal
  <2>1. pc = "isatty" /\ pc' = "openDevice" /\ ~Alive(m_fd)
    BY <1>4 DEF NoTerminal
  <2> QED
    BY <1>1, <1>2, <2>1, CallStep DEF Locations, DInv, Holding, Opening, Calls
<1>5. CASE LeaveIdle
  <2>1. pc = "idle" /\ pc' = "openDevice"
    BY <1>5 DEF LeaveIdle
  <2> QED
    BY <1>1, <1>2, <2>1, CallStep DEF Locations, DInv, Holding, Opening, Calls
<1>6. CASE Open /\ m_open
  <2>1. pc = "openDevice" /\ pc' = "work"
    BY <1>6 DEF Open
  <2> QED
    BY <1>6, <2>1 DEF DInv, Holding, Calls
<1>7. CASE Valid \/ WriteDone \/ PollTimeout \/ PollReady \/ ReadEOF \/ ReadByte
  <2>1. {pc, pc'} \subseteq {"work"} \cup Calls
    BY <1>7 DEF Valid, WriteDone, PollTimeout, PollReady, ReadEOF, ReadByte, Calls
  <2>2. m_open
    BY <2>1 DEF DInv, Holding
  <2>3. /\ pc' \in Locations \ {"close"} /\ pc # "close"
        /\ pc' \notin Opening /\ pc \notin Opening
    BY <2>1 DEF Locations, Opening, Calls
  <2> QED
    BY <1>1, <1>2, <2>1, <2>2, <2>3, CallStep
<1> QED
  BY <1>3, <1>4, <1>5, <1>6, <1>7

LEMMA DeviceStep == ASSUME DInv, Device \/ ReadByte \/ Idle \/ LeaveIdle \/ Destroy
                    PROVE  DInv'
<1>1. CASE OpenFails
  <2>1. /\ UNCHANGED <<path, line, settings, fds, m_open, m_oldSettings, next>>
        /\ ~m_open /\ pc = "openDevice" /\ pc' = "openDevice" /\ m_fd' = 0
    BY <1>1 DEF OpenFails, At, outside
  <2>2. next' \in {"openDevice", "idle", "gone"}
    BY <2>1 DEF DInv, DeviceTypeOK
  <2> QED
    BY <2>1, <2>2, CallStep DEF Locations, Opening, Calls
<1>2. CASE Open \/ Tcgetattr \/ Tcsetattr \/ Restore \/ Shut
  BY <1>2, OpenStep, TcgetattrStep, TcsetattrStep, RestoreStep, ShutStep
<1>3. CASE \/ IsTerminal \/ NoTerminal \/ Valid \/ WriteDone \/ PollTimeout
           \/ PollReady \/ ReadEOF \/ ReadByte \/ LeaveIdle
  BY <1>3, KeepStep
<1>4. CASE Invalid \/ Fails("write") \/ Fails("ppoll") \/ Fails("read")
  <2>1. Close("openDevice") /\ pc \in {"work"} \cup Calls
    BY <1>4 DEF Invalid, Fails, Calls
  <2> QED
    BY <2>1, CloseStep
<1>5. CASE Idle
  BY <1>5, CloseStep DEF Idle
<1>6. CASE Destroy
  BY <1>6, CloseStep DEF Destroy
<1> QED
  BY <1>1, <1>2, <1>3, <1>4, <1>5, <1>6 DEF Device

\* A step that changes nothing.
LEMMA DeviceStutter == ASSUME DInv, UNCHANGED vars PROVE DInv'
BY DEF vars, outside, object, DInv, DeviceTypeOK, Holding, LinesPast, Saved, HeldOnce,
       RawWhileOpen, Alive, Fds, Lines, Calls, Opening

LEMMA DInvAlways == Spec => []DInv
<1>1. ASSUME DInv, [Next]_vars PROVE DInv'
  BY <1>1, OutsideStep, DeviceStep, DeviceStutter DEF Next
<1> QED
  BY <1>1, DInvInit, PTL DEF Spec

\* However the device comes and goes and whatever the calls of Device make of
\* it, the variables keep their types: no descriptor is closed that was not
\* opened, and what is restored in close() was saved in open().
THEOREM DeviceTyped == Spec => []DeviceTypeOK
<1>1. DInv => DeviceTypeOK
  BY DEF DInv
<1> QED
  BY <1>1, DInvAlways, PTL

\* A terminal that is there is held by the object's descriptor alone, for any
\* number of failed calls of open() before.
THEOREM DescriptorHeldOnce == Spec => []HeldOnce
<1>1. DInv => HeldOnce
  BY DEF DInv
<1> QED
  BY <1>1, DInvAlways, PTL

\* close() gives the terminal its former settings back, and open() leaves it in
\* raw mode, though the results of tcgetattr() and tcsetattr() are not tested.
THEOREM RawOnlyOpen == Spec => []RawWhileOpen
<1>1. DInv => RawWhileOpen
  BY DEF DInv
<1> QED
  BY <1>1, DInvAlways, PTL

\* An open device never uses or closes a descriptor of another thread.
THEOREM DescriptorOwn == Spec => []OwnDescriptor
<1>1. DInv => OwnDescriptor
  BY DEF DInv, Holding, OwnDescriptor
<1> QED
  BY <1>1, DInvAlways, PTL
=============================================================================
