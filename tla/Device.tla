------------------------------- MODULE Device -------------------------------
(***************************************************************************)
(* The class Device (src/src/Device.cpp) as the service uses it: the file  *)
(* descriptor it holds, the terminal settings it changes and has to give   *)
(* back, and what its calls make of a device that is unplugged and plugged *)
(* in again at any moment.  One system call is one step.  Ebus knows of    *)
(* all this only isOpen and whether a call fails.                          *)
(***************************************************************************)
EXTENDS Naturals

CONSTANTS
  Descriptors,   \* the process's file descriptors, 1..Descriptors
  MaxPlugged,    \* how often the device is plugged in (a bound)
  Files,         \* whether the path may name something that is no terminal
  Unused, Others, NoTty  \* a descriptor that is not used, that another thread
                         \* uses, that refers to something else

ASSUME DeviceAssumption ==
  /\ Descriptors \in Nat \ {0} /\ MaxPlugged \in Nat \ {0}
  /\ Files \in BOOLEAN
  /\ Unused \notin Nat /\ Others \notin Nat /\ NoTty \notin Nat
  /\ Unused # Others /\ Unused # NoTty /\ Others # NoTty

VARIABLES
  \* outside
  path,          \* what the path names: "none", "file" or the "line"
  line,          \* how often the line was plugged in: each time it is another
  settings,      \* the line's terminal settings: "theirs" or "raw"
  fds,           \* what each descriptor refers to
  \* the object
  m_open, m_fd, m_oldSettings,
  \* the service thread
  pc,            \* the system call it makes next, or where it is between calls
  next           \* where it goes on after close()

outside == <<path, line, settings>>
object  == <<m_open, m_fd, m_oldSettings>>
vars    == <<outside, fds, object, pc, next>>

Lines  == 1..MaxPlugged

Fds == 1..Descriptors

\* The file descriptor's line is still there.
Alive(fd) == fd \in Fds /\ path = "line" /\ fds[fd] = line

-----------------------------------------------------------------------------
(* The device and the rest of the process.                                 *)

Plug ==
  /\ path = "none" /\ line < MaxPlugged
  /\ path' = "line" /\ line' = line + 1 /\ settings' = "theirs"
  /\ UNCHANGED <<fds, object, pc, next>>

Unplug ==
  /\ path = "line" /\ path' = "none"
  /\ UNCHANGED <<line, settings, fds, object, pc, next>>

File ==
  /\ Files /\ path # "line"
  /\ path' = IF path = "none" THEN "file" ELSE "none"
  /\ UNCHANGED <<line, settings, fds, object, pc, next>>

\* Other threads of the process take the lowest unused descriptor too.
Lowest(fd) == fds[fd] = Unused /\ \A n \in 1..fd - 1 : fds[n] # Unused

OthersOpen ==
  /\ \A fd \in Fds : fds[fd] # Others
  /\ \E fd \in Fds : Lowest(fd) /\ fds' = [fds EXCEPT ![fd] = Others]
  /\ UNCHANGED <<outside, object, pc, next>>

OthersClose ==
  /\ \E fd \in Fds : fds[fd] = Others /\ fds' = [fds EXCEPT ![fd] = Unused]
  /\ UNCHANGED <<outside, object, pc, next>>

-----------------------------------------------------------------------------
(* Device::open() and Device::close().                                     *)

At(here, there) == pc = here /\ pc' = there

KeepAll == UNCHANGED <<outside, fds, object, next>>

\* ::open() fails where there is nothing, or no descriptor is left: an error,
\* handleDeviceError() and openDevice() again.
OpenFails ==
  /\ ~m_open /\ (path = "none" \/ \A fd \in Fds : fds[fd] # Unused)
  /\ At("openDevice", "openDevice")
  /\ m_fd' = 0
  /\ UNCHANGED <<outside, fds, m_open, m_oldSettings, next>>

\* openDevice() and open() both go on with a device that is open already.
Open ==
  IF m_open THEN At("openDevice", "work") /\ KeepAll
  ELSE /\ path # "none"
       /\ At("openDevice", "isatty")
       /\ \E fd \in Fds :
            /\ Lowest(fd)
            /\ fds' = [fds EXCEPT ![fd] = IF path = "line" THEN line ELSE NoTty]
            /\ m_fd' = fd
       /\ UNCHANGED <<outside, m_open, m_oldSettings, next>>

\* Mutant: any descriptor passes for a terminal.
IsattyAlways == At("isatty", "tcgetattr") /\ KeepAll

IsTerminal == Alive(m_fd) /\ At("isatty", "tcgetattr") /\ KeepAll

\* The exception leaves the descriptor open.
NoTerminal == ~Alive(m_fd) /\ At("isatty", "openDevice") /\ KeepAll

\* Mutant: the settings are saved after they have been changed.
TcgetattrLate ==
  /\ At("tcgetattr", "tcsetattr")
  /\ settings' = IF Alive(m_fd) THEN "raw" ELSE settings
  /\ m_oldSettings' = IF Alive(m_fd) THEN "raw" ELSE m_oldSettings
  /\ UNCHANGED <<path, line, fds, m_open, m_fd, next>>

\* The results of the two calls are not tested.
Tcgetattr ==
  /\ At("tcgetattr", "tcsetattr")
  /\ m_oldSettings' = IF Alive(m_fd) THEN settings ELSE m_oldSettings
  /\ UNCHANGED <<outside, fds, m_open, m_fd, next>>

Tcsetattr ==
  /\ At("tcsetattr", "work")
  /\ settings' = IF Alive(m_fd) THEN "raw" ELSE settings
  /\ m_open' = TRUE
  /\ UNCHANGED <<path, line, fds, m_fd, m_oldSettings, next>>

\* close() before going on to there.
Close(there) ==
  /\ IF m_open THEN pc' = "restore" /\ next' = there
               ELSE pc' = there /\ UNCHANGED next
  /\ UNCHANGED <<outside, fds, object>>

\* Mutant: the descriptor is closed before the settings are restored.
RestoreDead == At("restore", "close") /\ KeepAll

Restore ==
  /\ At("restore", "close")
  /\ settings' = IF Alive(m_fd) THEN m_oldSettings ELSE settings
  /\ UNCHANGED <<path, line, fds, object, next>>

\* Mutant: the descriptor is forgotten and not closed.
ShutLeaks ==
  /\ At("close", next)
  /\ m_fd' = 0 /\ m_open' = FALSE
  /\ UNCHANGED <<outside, fds, m_oldSettings, next>>

Shut ==
  /\ At("close", next)
  /\ fds' = [fds EXCEPT ![m_fd] = Unused]
  /\ m_fd' = 0 /\ m_open' = FALSE
  /\ UNCHANGED <<outside, m_oldSettings, next>>

-----------------------------------------------------------------------------
(* send() and recv().                                                      *)

Calls == {"write", "ppoll", "read"}

\* isValid() at the beginning of send(), of recv() with and without a timeout.
Valid ==
  /\ pc = "work" /\ Alive(m_fd)
  /\ pc' \in Calls
  /\ KeepAll

\* Mutant: isValid() leaves the device to handleDeviceError(), which does not
\* close it either.
InvalidStaysOpen == ~Alive(m_fd) /\ At("work", "openDevice") /\ KeepAll

\* It closes the device itself, and handleDeviceError() finds it closed.
Invalid == pc = "work" /\ ~Alive(m_fd) /\ Close("openDevice")

\* A runtime_error: handleDeviceError() closes the device.
Fails(call) == pc = call /\ ~Alive(m_fd) /\ Close("openDevice")

WriteDone == Alive(m_fd) /\ At("write", "work") /\ KeepAll

\* A runtime_warning after a timeout: the device stays open.
PollTimeout == Alive(m_fd) /\ At("ppoll", "work") /\ KeepAll

\* There is a byte, or a hangup.
PollReady == At("ppoll", "read") /\ KeepAll

\* A byte comes, in time or not.
ReadByte == Alive(m_fd) /\ At("read", "work") /\ KeepAll

\* A hangup may be an end of file: a runtime_warning.
ReadEOF == ~Alive(m_fd) /\ At("read", "work") /\ KeepAll

-----------------------------------------------------------------------------
(* idleSystem() and the end.                                               *)

\* m_close has been set: run() goes to idleSystem() after any handler.
Idle == pc \in {"work", "openDevice"} /\ Close("idle")

LeaveIdle == At("idle", "openDevice") /\ KeepAll

\* The thread has been joined, and ~Device() closes.
Destroy == pc \in {"work", "openDevice", "idle"} /\ Close("gone")

-----------------------------------------------------------------------------
Init ==
  /\ path = "none" /\ line = 0 /\ settings = "theirs"
  /\ fds = [fd \in Fds |-> Unused]
  /\ m_open = FALSE /\ m_fd = 0 /\ m_oldSettings = "zero"
  /\ pc = "openDevice" /\ next = "openDevice"

Outside == Plug \/ Unplug \/ File \/ OthersOpen \/ OthersClose

Device ==
  \/ OpenFails \/ Open \/ IsTerminal \/ NoTerminal
  \/ Tcgetattr \/ Tcsetattr \/ Restore \/ Shut
  \/ Valid \/ Invalid \/ Fails("write") \/ Fails("ppoll") \/ Fails("read")
  \/ WriteDone \/ PollTimeout \/ PollReady \/ ReadEOF

Next == Outside \/ Device \/ ReadByte \/ Idle \/ LeaveIdle \/ Destroy

Spec == Init /\ [][Next]_vars

\* The thread goes on, but for a read that waits for a byte and a service that
\* is left idle.
FairSpec == Spec /\ WF_vars(Device)

-----------------------------------------------------------------------------
(* Properties.                                                             *)

\* The variables have their types, and an open device has a descriptor.
DeviceTypeOK ==
  /\ path \in {"none", "file", "line"} /\ line \in 0..MaxPlugged
  /\ settings \in {"theirs", "raw"}
  /\ fds \in [Fds -> {Unused, Others, NoTty} \cup Lines]
  /\ m_open \in BOOLEAN /\ m_fd \in Fds \cup {0}
  /\ m_oldSettings \in {"zero", "theirs"}
  /\ pc \in {"openDevice", "isatty", "tcgetattr", "tcsetattr", "work", "restore",
             "close", "idle", "gone"} \cup Calls
  /\ next \in {"openDevice", "idle", "gone"}

\* A terminal that is there is held by one descriptor at most, the object's:
\* of the descriptors that a failed open() leaves behind none is a terminal
\* that somebody, this process included, could miss.
HeldOnce ==
  \A fd \in Fds : Alive(fd) =>
    fd = m_fd /\ (m_open \/ pc \in {"isatty", "tcgetattr", "tcsetattr"})

\* The terminal is in raw mode while, and only while, the device is open: its
\* former settings are back when it is closed, also if it was unplugged before
\* and whatever m_oldSettings was left with, and no byte is read without.
RawWhileOpen ==
  path = "line" => (settings = "raw" <=> m_open /\ Alive(m_fd) /\ pc # "close")

\* The service reads, writes and closes its own descriptor and never one that
\* other threads have opened meanwhile under the same number.
OwnDescriptor == m_open => m_fd \in Fds /\ fds[m_fd] \in Lines

\* A device that comes back for good is open for good in the end, though it
\* went in the middle of open(), read() or close(), the exceptions of both kinds
\* were thrown and descriptors were left behind; save where the application has
\* the service idle again and again, or destroys it.
Reopened ==
  [](path # "file") /\ <>[](path = "line") =>
    <>[](m_open /\ Alive(m_fd)) \/ []<>(pc \in {"idle", "gone"})
=============================================================================
