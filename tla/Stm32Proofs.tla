---------------------------- MODULE Stm32Proofs ----------------------------
(***************************************************************************)
(* The boot path and the update of Stm32 hold their invariants for every   *)
(* set of images and keys and any number of power failures and failed      *)
(* writes.  The tasks leave the flash alone, so only OtaStep, PowerLoss    *)
(* and Publish matter.                                                     *)
(***************************************************************************)
EXTENDS Stm32, TLAPS

\* The ota area holds the image that s names, whose hash may be erased.
Holds(s) ==
    /\ ota \in Image
    /\ Size[ota] = s.len_ota
    /\ s.hash \in {ota, Erased}

\* The normal area holds the image the page names as moved.
Moved ==
    /\ normal \in Image
    /\ normal = page.hash
    /\ Size[normal] = page.len_ota
    /\ page.len_normal = page.len_ota

\* The lengths are programmed together, and an image the page names is in
\* one of the two areas.
PageOK ==
    /\ page.len_normal = Erased <=> page.len_ota = Erased
    /\ page.len_ota \notin {0, Erased} => Holds(page) \/ Moved

\* From ota_checklocal until the page is written again the page is right
\* about the normal area.
LocalOK ==
    pc \in {"checkremote"} \cup Downloading =>
        /\ page.len_normal = page.len_ota
        /\ page.len_ota \in Nat
        /\ page.len_ota # 0 => Moved
        /\ g_store.len_normal = page.len_normal

\* What is downloaded is what was announced.
Announced ==
    pc \in Downloading =>
        /\ g_store.hash \in Image
        /\ g_store.len_ota = Size[g_store.hash]

\* What is moved is what the page names.
MoveOK ==
    pc \in Moving =>
        /\ page = g_store
        /\ g_store.len_ota \in Nat
        /\ g_store.len_ota # 0 => Holds(g_store)

\* What is written to the page is true before it is written.
StoreOK ==
    pc \in Storing =>
        /\ g_store.len_normal \in Nat
        /\ g_store.len_ota \in Nat
        /\ g_store.len_ota # 0 => Holds(g_store)
        /\ after = "move" => g_store.hash = ota /\ g_store.len_ota # 0
        /\ after = "checklocal" => g_store.len_normal = 0
        /\ pc # "erase" =>
             \/ page.len_ota = Erased /\ page.len_normal = Erased
             \/ page.len_ota = g_store.len_ota /\ page.len_normal = g_store.len_normal
        /\ pc # "erase" => page.hash \in {Erased, g_store.hash}

\* As long as no write fails, a board whose normal area is damaged knows that
\* it has a move to finish.
Remembers ==
    faults = 0 =>
        /\ normal \notin Image =>
             /\ pc \in {"reset", "dead", "checklocal"} \cup Moving
             /\ page.flag = "generated"
             /\ page.len_ota \notin {0, Erased}
        /\ pc = "checklocal" => page.flag = "generated"
        /\ pc \in {"checkremote"} \cup Downloading \cup Moving \cup Storing =>
             g_store.flag = "generated"
        /\ pc \in {"len", "hash", "key", "verify"} => page.flag = "generated"

\* What ota_checklocal found stays.
Intact ==
    /\ \/ pc \in {"checkremote", "tasks"} \cup Downloading
       \/ pc \in Storing /\ after = "move"
    /\ g_store.len_normal # 0
    => normal \in Image

OtaInv ==
    /\ OtaTypeOK
    /\ PageOK
    /\ LocalOK
    /\ Announced
    /\ MoveOK
    /\ StoreOK
    /\ Remembers
    /\ Intact

-----------------------------------------------------------------------------
(* Each action of the boot path keeps OtaInv.                              *)

USE DEF Downloading, Moving, Storing, areaVars, serverVars

\* The chip starts, or not.
LEMMA BootKeeps == OtaInv /\ Boot => OtaInv'
<1> SUFFICES ASSUME OtaInv, Boot PROVE OtaInv'
  OBVIOUS
<1> USE OtaAssumption DEF OtaInv, Boot, Goto
<1>1. OtaTypeOK'
  BY DEF OtaTypeOK, Place, Store, Content, ErasedStore
<1>2. PageOK'
  BY DEF PageOK, OtaTypeOK, Holds, Moved, Store, Content
<1>3. LocalOK'
  BY DEF LocalOK, Moved
<1>4. Announced'
  BY DEF Announced
<1>5. MoveOK'
  BY DEF MoveOK, Holds
<1>6. StoreOK'
  BY DEF StoreOK, Holds
<1>7. Remembers'
  BY DEF Remembers
<1>8. Intact'
  BY DEF Intact
<1> QED
  BY <1>1, <1>2, <1>3, <1>4, <1>5, <1>6, <1>7, <1>8

\* A fresh record names no image.
LEMMA EccGenKeeps == OtaInv /\ EccGen => OtaInv'
<1> SUFFICES ASSUME OtaInv, EccGen PROVE OtaInv'
  OBVIOUS
<1> USE OtaAssumption DEF OtaInv, EccGen
<1>1. OtaTypeOK'
  BY DEF OtaTypeOK, Place, Store, Content
<1>2. PageOK'
  BY DEF PageOK, OtaTypeOK, Holds, Moved, Store, Content
<1>3. LocalOK'
  BY DEF LocalOK, Moved
<1>4. Announced'
  BY DEF Announced
<1>5. MoveOK'
  BY DEF MoveOK, Holds
<1>6. StoreOK'
  BY DEF StoreOK, Holds
<1>7. Remembers'
  BY DEF Remembers
<1>8. Intact'
  BY DEF Intact
<1> QED
  BY <1>1, <1>2, <1>3, <1>4, <1>5, <1>6, <1>7, <1>8

\* A board without a key halts.
LEMMA EccFailKeeps == OtaInv /\ EccFail => OtaInv'
<1> SUFFICES ASSUME OtaInv, EccFail PROVE OtaInv'
  OBVIOUS
<1> USE OtaAssumption DEF OtaInv, EccFail, Goto, Fails
<1>1. OtaTypeOK'
  BY DEF OtaTypeOK, Place, Store, Content
<1>2. PageOK'
  BY DEF PageOK, OtaTypeOK, Holds, Moved, Store, Content
<1>3. LocalOK'
  BY DEF LocalOK, Moved
<1>4. Announced'
  BY DEF Announced
<1>5. MoveOK'
  BY DEF MoveOK, Holds
<1>6. StoreOK'
  BY DEF StoreOK, Holds
<1>7. Remembers'
  BY DEF Remembers, OtaTypeOK, Store, Content
<1>8. Intact'
  BY DEF Intact
<1> QED
  BY <1>1, <1>2, <1>3, <1>4, <1>5, <1>6, <1>7, <1>8

\* An erased page names no image.
LEMMA EraseStoreKeeps == OtaInv /\ EraseStore => OtaInv'
<1> SUFFICES ASSUME OtaInv, EraseStore PROVE OtaInv'
  OBVIOUS
<1> USE OtaAssumption DEF OtaInv, EraseStore, Goto
<1>1. OtaTypeOK'
  BY DEF OtaTypeOK, Place, Store, Content, ErasedStore
<1>2. PageOK'
  BY DEF PageOK, OtaTypeOK, Holds, Moved, Store, Content, ErasedStore
<1>3. LocalOK'
  BY DEF LocalOK, Moved
<1>4. Announced'
  BY DEF Announced
<1>5. MoveOK'
  BY DEF MoveOK, Holds
<1>6. StoreOK'
  BY DEF StoreOK, OtaTypeOK, Holds, Store, Content, ErasedStore
<1>7. Remembers'
  BY DEF Remembers, ErasedStore
<1>8. Intact'
  BY DEF Intact
<1> QED
  BY <1>1, <1>2, <1>3, <1>4, <1>5, <1>6, <1>7, <1>8

\* One field is programmed, or none.  What the page names from then on is in
\* the ota area, since the record in RAM is true.
LEMMA ProgramStoreKeeps == OtaInv /\ ProgramStore => OtaInv'
<1> SUFFICES ASSUME OtaInv, ProgramStore PROVE OtaInv'
  OBVIOUS
<1> USE OtaAssumption DEF OtaInv
<1>1. /\ pc \in {"flag", "len", "hash", "key"}
      /\ pc' = NextField(pc)
      /\ UNCHANGED <<normal, ota, g_store, after, remote, cuts>>
      /\ \/ page' = Programmed(pc) /\ faults' = faults
         \/ page' = page /\ faults < MaxFaults /\ faults' = faults + 1
  BY DEF ProgramStore, Goto, Fails
<1>2. \/ pc' \in {"len", "hash", "key", "verify"}
      \/ pc = "key" /\ pc' = "checklocal" /\ after = "checklocal"
  BY <1>1 DEF NextField
<1>3. page' = Programmed(pc) =>
        /\ page' \in Store
        /\ page'.flag = IF pc = "flag" THEN g_store.flag ELSE page.flag
        /\ page'.len_normal = IF pc = "len" THEN g_store.len_normal
                              ELSE page.len_normal
        /\ page'.len_ota = IF pc = "len" THEN g_store.len_ota ELSE page.len_ota
        /\ page'.hash = IF pc = "hash" THEN g_store.hash ELSE page.hash
  <2>1. CASE pc = "flag"
    BY <1>1, <2>1 DEF Programmed, OtaTypeOK, Store
  <2>2. CASE pc = "len"
    BY <1>1, <2>2 DEF Programmed, OtaTypeOK, Store
  <2>3. CASE pc = "hash"
    BY <1>1, <2>3 DEF Programmed, OtaTypeOK, Store
  <2>4. CASE pc = "key"
    BY <1>1, <2>4 DEF Programmed, OtaTypeOK, Store
  <2> QED
    BY <1>1, <2>1, <2>2, <2>3, <2>4
<1>4. OtaTypeOK'
  BY <1>1, <1>2, <1>3 DEF OtaTypeOK, Place
<1>5. StoreOK'
  BY <1>1, <1>2, <1>3 DEF StoreOK, OtaTypeOK, Holds
<1>6. PageOK'
  <2>1. /\ g_store.len_normal \in Nat
        /\ g_store.len_ota \in Nat
        /\ g_store.len_ota # 0 => Holds(g_store)
        /\ page.hash \in {Erased, g_store.hash}
        /\ page.len_normal = Erased <=> page.len_ota = Erased
        /\ page.len_ota \in {Erased, g_store.len_ota}
    BY <1>1 DEF StoreOK, PageOK
  <2> QED
    BY <1>1, <1>3, <2>1 DEF PageOK, Holds, Moved
<1>7. Remembers'
  BY <1>1, <1>2, <1>3 DEF Remembers, OtaTypeOK
<1>8. LocalOK' /\ Announced' /\ MoveOK'
  BY <1>2 DEF LocalOK, Announced, MoveOK
<1>9. Intact'
  BY <1>1, <1>2 DEF Intact
<1> QED
  BY <1>4, <1>5, <1>6, <1>7, <1>8, <1>9

\* The page is what was meant, or is written again.
LEMMA VerifyStoreKeeps == OtaInv /\ VerifyStore => OtaInv'
<1> SUFFICES ASSUME OtaInv, VerifyStore PROVE OtaInv'
  OBVIOUS
<1> USE OtaAssumption DEF OtaInv, VerifyStore, Goto
<1>1. OtaTypeOK'
  BY DEF OtaTypeOK, Place, Store, Content
<1>2. PageOK'
  BY DEF PageOK, OtaTypeOK, Holds, Moved, Store, Content
<1>3. LocalOK'
  BY DEF LocalOK, OtaTypeOK, Moved, Store, Content
<1>4. Announced'
  BY DEF Announced, OtaTypeOK, Store, Content
<1>5. MoveOK'
  BY DEF MoveOK, StoreOK, Holds
<1>6. StoreOK'
  BY DEF StoreOK, Holds
<1>7. Remembers'
  BY DEF Remembers, StoreOK, Holds
<1>8. Intact'
  BY DEF Intact, OtaTypeOK, Store, Content
<1> QED
  BY <1>1, <1>2, <1>3, <1>4, <1>5, <1>6, <1>7, <1>8

\* ota_checklocal goes on to the server only with an intact normal area.
LEMMA CheckLocalKeeps == OtaInv /\ CheckLocal => OtaInv'
<1> SUFFICES ASSUME OtaInv, CheckLocal PROVE OtaInv'
  OBVIOUS
<1> USE OtaAssumption DEF OtaInv, CheckLocal, Goto
<1>1. OtaTypeOK'
  BY DEF OtaTypeOK, Place, Store, Content
<1>2. PageOK'
  BY DEF PageOK, OtaTypeOK, Holds, Moved, Store, Content
<1>3. LocalOK'
  BY DEF LocalOK, OtaTypeOK, PageOK, Moved, Holds, Store, Content, Stale,
           HashOf
<1>4. Announced'
  BY DEF Announced
<1>5. MoveOK'
  BY DEF MoveOK, OtaTypeOK, PageOK, Holds, Moved, Store, Content, Stale,
           HashOf
<1>6. StoreOK'
  BY DEF StoreOK, Holds
<1>7. Remembers'
  BY DEF Remembers, OtaTypeOK, PageOK, Holds, Moved, Store, Content, Stale,
           HashOf
<1>8. Intact'
  BY DEF Intact, OtaTypeOK, PageOK, Holds, Moved, Store, Content, Stale,
           HashOf
<1> QED
  BY <1>1, <1>2, <1>3, <1>4, <1>5, <1>6, <1>7, <1>8

\* The announced image is in the record.
LEMMA CheckRemoteKeeps == OtaInv /\ CheckRemote => OtaInv'
<1> SUFFICES ASSUME OtaInv, CheckRemote PROVE OtaInv'
  OBVIOUS
<1> USE OtaAssumption DEF OtaInv, CheckRemote, Goto
<1>1. OtaTypeOK'
  BY DEF OtaTypeOK, Place, Store, Content
<1>2. PageOK'
  BY DEF PageOK, OtaTypeOK, Holds, Moved, Store, Content
<1>3. LocalOK'
  BY DEF LocalOK, Moved
<1>4. Announced'
  BY DEF Announced, OtaTypeOK, Store, Content
<1>5. MoveOK'
  BY DEF MoveOK, Holds
<1>6. StoreOK'
  BY DEF StoreOK, Holds
<1>7. Remembers'
  BY DEF Remembers, LocalOK, Moved
<1>8. Intact'
  BY DEF Intact, LocalOK, Moved
<1> QED
  BY <1>1, <1>2, <1>3, <1>4, <1>5, <1>6, <1>7, <1>8

\* The ota area is erased: the page names what the normal area holds.
LEMMA DownloadKeeps == OtaInv /\ Download => OtaInv'
<1> SUFFICES ASSUME OtaInv, Download PROVE OtaInv'
  OBVIOUS
<1> USE OtaAssumption DEF OtaInv, Download, Goto
<1>1. OtaTypeOK'
  BY DEF OtaTypeOK, Place, Store, Content
<1>2. PageOK'
  BY DEF PageOK, OtaTypeOK, LocalOK, Holds, Moved, Store, Content
<1>3. LocalOK'
  BY DEF LocalOK, Moved
<1>4. Announced'
  BY DEF Announced
<1>5. MoveOK'
  BY DEF MoveOK, Holds
<1>6. StoreOK'
  BY DEF StoreOK, Holds
<1>7. Remembers'
  BY DEF Remembers
<1>8. Intact'
  BY DEF Intact, LocalOK, Moved
<1> QED
  BY <1>1, <1>2, <1>3, <1>4, <1>5, <1>6, <1>7, <1>8

\* The ota area is written, whole or not.
LEMMA FetchKeeps == OtaInv /\ Fetch => OtaInv'
<1> SUFFICES ASSUME OtaInv, Fetch PROVE OtaInv'
  OBVIOUS
<1> USE OtaAssumption DEF OtaInv, Fetch, Goto, Fails
<1>1. OtaTypeOK'
  BY DEF OtaTypeOK, Announced, Place, Store, Content
<1>2. PageOK'
  BY DEF PageOK, OtaTypeOK, LocalOK, Holds, Moved, Store, Content
<1>3. LocalOK'
  BY DEF LocalOK, Moved
<1>4. Announced'
  BY DEF Announced
<1>5. MoveOK'
  BY DEF MoveOK, Holds
<1>6. StoreOK'
  BY DEF StoreOK, Holds
<1>7. Remembers'
  BY DEF Remembers, OtaTypeOK, Store, Content
<1>8. Intact'
  BY DEF Intact
<1> QED
  BY <1>1, <1>2, <1>3, <1>4, <1>5, <1>6, <1>7, <1>8

\* Only a whole image is stored.
LEMMA CheckDownloadKeeps == OtaInv /\ CheckDownload => OtaInv'
<1> SUFFICES ASSUME OtaInv, CheckDownload PROVE OtaInv'
  OBVIOUS
<1> USE OtaAssumption DEF OtaInv, CheckDownload, Goto
<1>1. OtaTypeOK'
  BY DEF OtaTypeOK, Place, Store, Content
<1>2. PageOK'
  BY DEF PageOK, OtaTypeOK, Holds, Moved, Store, Content
<1>3. LocalOK'
  BY DEF LocalOK, Moved
<1>4. Announced'
  BY DEF Announced
<1>5. MoveOK'
  BY DEF MoveOK, Holds
<1>6. StoreOK'
  BY DEF StoreOK, OtaTypeOK, LocalOK, Announced, Holds, Moved, Store,
           Content, Whole, HashOf
<1>7. Remembers'
  BY DEF Remembers
<1>8. Intact'
  BY DEF Intact
<1> QED
  BY <1>1, <1>2, <1>3, <1>4, <1>5, <1>6, <1>7, <1>8

\* The normal area is erased: the page names what the ota area holds.
LEMMA MoveKeeps == OtaInv /\ Move => OtaInv'
<1> SUFFICES ASSUME OtaInv, Move PROVE OtaInv'
  OBVIOUS
<1> USE OtaAssumption DEF OtaInv, Move, Goto
<1>1. OtaTypeOK'
  BY DEF OtaTypeOK, Place, Store, Content
<1>2. PageOK'
  BY DEF PageOK, OtaTypeOK, MoveOK, Holds, Moved, Store, Content
<1>3. LocalOK'
  BY DEF LocalOK, Moved
<1>4. Announced'
  BY DEF Announced
<1>5. MoveOK'
  BY DEF MoveOK, Holds
<1>6. StoreOK'
  BY DEF StoreOK, Holds
<1>7. Remembers'
  BY DEF Remembers, MoveOK, OtaTypeOK, Holds, Store, Content
<1>8. Intact'
  BY DEF Intact
<1> QED
  BY <1>1, <1>2, <1>3, <1>4, <1>5, <1>6, <1>7, <1>8

\* So it is while the copy is under way,
LEMMA CopyKeeps == OtaInv /\ Copy => OtaInv'
<1> SUFFICES ASSUME OtaInv, Copy PROVE OtaInv'
  OBVIOUS
<1> USE OtaAssumption DEF OtaInv, Copy, Goto
<1>1. OtaTypeOK'
  BY DEF OtaTypeOK, Place, Store, Content
<1>2. PageOK'
  BY DEF PageOK, OtaTypeOK, MoveOK, Holds, Moved, Store, Content
<1>3. LocalOK'
  BY DEF LocalOK, Moved
<1>4. Announced'
  BY DEF Announced
<1>5. MoveOK'
  BY DEF MoveOK, Holds
<1>6. StoreOK'
  BY DEF StoreOK, Holds
<1>7. Remembers'
  BY DEF Remembers, MoveOK, OtaTypeOK, Holds, Store, Content
<1>8. Intact'
  BY DEF Intact
<1> QED
  BY <1>1, <1>2, <1>3, <1>4, <1>5, <1>6, <1>7, <1>8

\* and when it is done.
LEMMA FinishKeeps == OtaInv /\ Finish => OtaInv'
<1> SUFFICES ASSUME OtaInv, Finish PROVE OtaInv'
  OBVIOUS
<1> USE OtaAssumption DEF OtaInv, Finish, Goto, Fails
<1>1. OtaTypeOK'
  BY DEF OtaTypeOK, Place, Store, Content
<1>2. PageOK'
  BY DEF PageOK, OtaTypeOK, MoveOK, Holds, Moved, Store, Content
<1>3. LocalOK'
  BY DEF LocalOK, Moved
<1>4. Announced'
  BY DEF Announced
<1>5. MoveOK'
  BY DEF MoveOK, Holds
<1>6. StoreOK'
  BY DEF StoreOK, MoveOK, Holds
<1>7. Remembers'
  BY DEF Remembers, MoveOK, OtaTypeOK, Holds, Store, Content
<1>8. Intact'
  BY DEF Intact
<1> QED
  BY <1>1, <1>2, <1>3, <1>4, <1>5, <1>6, <1>7, <1>8

\* RAM is lost; what was true of the flash stays true.
LEMMA PowerLossKeeps == OtaInv /\ PowerLoss => OtaInv'
<1> SUFFICES ASSUME OtaInv, PowerLoss PROVE OtaInv'
  OBVIOUS
<1> USE OtaAssumption DEF OtaInv, PowerLoss
<1>1. OtaTypeOK'
  BY DEF OtaTypeOK, Place, Store, Content, ErasedStore
<1>2. PageOK'
  BY DEF PageOK, OtaTypeOK, Holds, Moved, Store, Content
<1>3. LocalOK'
  BY DEF LocalOK, Moved
<1>4. Announced'
  BY DEF Announced
<1>5. MoveOK'
  BY DEF MoveOK, Holds
<1>6. StoreOK'
  BY DEF StoreOK, Holds
<1>7. Remembers'
  BY DEF Remembers
<1>8. Intact'
  BY DEF Intact
<1> QED
  BY <1>1, <1>2, <1>3, <1>4, <1>5, <1>6, <1>7, <1>8

\* The server is not the board.
LEMMA PublishKeeps == OtaInv /\ Publish => OtaInv'
<1> SUFFICES ASSUME OtaInv, Publish PROVE OtaInv'
  OBVIOUS
<1> USE OtaAssumption DEF OtaInv, Publish
<1>1. OtaTypeOK'
  BY DEF OtaTypeOK, Place, Store, Content
<1>2. PageOK'
  BY DEF PageOK, OtaTypeOK, Holds, Moved, Store, Content
<1>3. LocalOK'
  BY DEF LocalOK, Moved
<1>4. Announced'
  BY DEF Announced
<1>5. MoveOK'
  BY DEF MoveOK, Holds
<1>6. StoreOK'
  BY DEF StoreOK, Holds
<1>7. Remembers'
  BY DEF Remembers
<1>8. Intact'
  BY DEF Intact
<1> QED
  BY <1>1, <1>2, <1>3, <1>4, <1>5, <1>6, <1>7, <1>8

-----------------------------------------------------------------------------
(* The specification of the whole program                                  *)

\* A new board has an image and a page that names none.
LEMMA InitInv == Init => OtaInv
  BY OtaAssumption DEF Init, OtaInit, OtaInv, OtaTypeOK, Store, ErasedStore,
     Content, Place, PageOK, LocalOK, Announced, MoveOK, StoreOK, Remembers,
     Intact

LEMMA UnchangedKeeps == OtaInv /\ UNCHANGED otaVars => OtaInv'
  BY DEF otaVars, OtaInv, OtaTypeOK, PageOK, LocalOK, Announced, MoveOK,
     StoreOK, Remembers, Intact, Holds, Moved

LEMMA NextKeeps == OtaInv /\ [Next]_vars => OtaInv'
<1> SUFFICES ASSUME OtaInv, [Next]_vars PROVE OtaInv'
  OBVIOUS
<1>1. CASE OtaStep
  BY <1>1, BootKeeps, EccGenKeeps, EccFailKeeps, EraseStoreKeeps,
     ProgramStoreKeeps, VerifyStoreKeeps, CheckLocalKeeps, CheckRemoteKeeps,
     DownloadKeeps, FetchKeeps, CheckDownloadKeeps, MoveKeeps, CopyKeeps,
     FinishKeeps DEF OtaStep
<1>2. CASE PowerLoss
  BY <1>2, PowerLossKeeps
<1>3. CASE Publish
  BY <1>3, PublishKeeps
<1>4. CASE UNCHANGED otaVars
  BY <1>4, UnchangedKeeps
<1> QED
  BY <1>1, <1>2, <1>3, <1>4 DEF Next, BootStep, TaskStep, Task, PowerCut, vars

\* The strengthening of the invariants below holds in every state.
THEOREM OtaInvariant == Spec => []OtaInv
  BY InitInv, NextKeeps, PTL DEF Spec

\* ota_move never erases the only copy of the firmware (ota.c:104-120).
THEOREM MoveSourceHolds == Spec => []MoveSource
<1>1. OtaInv => MoveSource
  BY DEF OtaInv, MoveOK, MoveSource, Holds
<1> QED
  BY <1>1, OtaInvariant, PTL

\* The image the page names can always be started (ota.c:84-97, 129-147).
THEOREM RecoverableHolds == Spec => []Recoverable
<1>1. OtaInv => Recoverable
  BY DEF OtaInv, PageOK, Recoverable, Holds, Moved
<1> QED
  BY <1>1, OtaInvariant, PTL

\* Only ota_move puts the image the chip starts from at risk.
THEOREM StartsAgainHolds == Spec => []StartsAgain
<1>1. OtaInv => StartsAgain
  BY DEF OtaInv, Intact, Remembers, StartsAgain
<1> QED
  BY <1>1, OtaInvariant, PTL
=============================================================================
