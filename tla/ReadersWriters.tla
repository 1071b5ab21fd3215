---------------------------- MODULE ReadersWriters ----------------------------
(***************************************************************************)
(* What the access gate of the effects system promises to the code that    *)
(* runs behind it: any number of readers or one writer; and a writer that  *)
(* becomes a reader stays the only one until it says otherwise.            *)
(***************************************************************************)
CONSTANT Threads

VARIABLES
  readers,  \* the threads that iterate over the effects
  writer,   \* the thread that owns them, if there is one
  alone     \* the reader that keeps the others out, if there is one

lockVars == <<readers, writer, alone>>

Init ==
  /\ readers = {}
  /\ writer = {}
  /\ alone = {}

BeginRead(t) ==
  /\ writer = {}
  /\ alone = {}
  /\ readers' = readers \cup {t}
  /\ UNCHANGED <<writer, alone>>

EndRead(t) ==
  /\ t \in readers
  /\ readers' = readers \ {t}
  /\ alone' = alone \ {t}
  /\ UNCHANGED writer

BeginWrite(t) ==
  /\ readers = {}
  /\ writer = {}
  /\ writer' = {t}
  /\ UNCHANGED <<readers, alone>>

EndWrite(t) ==
  /\ writer = {t}
  /\ writer' = {}
  /\ UNCHANGED <<readers, alone>>

Downgrade(t) ==
  /\ writer = {t}
  /\ writer' = {}
  /\ readers' = {t}
  /\ alone' = {t}

\* The reader that is alone takes back what it has given up.
Upgrade(t) ==
  /\ alone = {t}
  /\ readers = {t}
  /\ readers' = {}
  /\ alone' = {}
  /\ writer' = {t}

Reopen(t) ==
  /\ alone = {t}
  /\ alone' = {}
  /\ UNCHANGED <<readers, writer>>

Next ==
  \E t \in Threads :
    \/ BeginRead(t)
    \/ EndRead(t)
    \/ BeginWrite(t)
    \/ EndWrite(t)
    \/ Downgrade(t)
    \/ Upgrade(t)
    \/ Reopen(t)

Spec == Init /\ [][Next]_lockVars

=============================================================================
