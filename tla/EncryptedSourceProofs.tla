----------------------- MODULE EncryptedSourceProofs ------------------------
(***************************************************************************)
(* For every set of terminals, keys, recipients and manifests: the source  *)
(* is as users were told, unless they wrote over one another; they are     *)
(* never locked out of it; no enrolled identity is lost; and every         *)
(* temporary identity file is deleted on every way a command can end but   *)
(* being killed.                                                           *)
(***************************************************************************)
EXTENDS EncryptedSource, TLAPS

ProcState ==
    [pc : {"idle", "enumerate", "read", "write", "temporary", "settings", "work",
           "editing", "verify", "rename"},
     op : {"none", "load", "edit", "rekey"}, edit : 0..MaxCommands,
     want : SUBSET Recipients, found : SUBSET YubiKeys, merged : SUBSET Mine,
     save : BOOLEAN, ownFile : BOOLEAN, effective : SUBSET Mine, opened : Source]

(* One step changes the state of one process.                              *)
Becomes(p, s) == proc' = [proc EXCEPT ![p] = s]

LEMMA IdleTyped == Idle \in ProcState
  BY BoundsAreNat DEF Idle, Nothing, ProcState, Source

LEMMA ProcTyped ==
  ASSUME TypeOK, NEW p \in Procs
  PROVE  proc[p] \in ProcState
  BY DEF TypeOK, ProcState

LEMMA ProcStaysTyped ==
  ASSUME TypeOK, NEW p \in Procs, NEW s \in ProcState, Becomes(p, s)
  PROVE  proc' \in [Procs -> ProcState]
  BY DEF TypeOK, ProcState, Becomes

LEMMA TypeInit == Init => TypeOK
<1> SUFFICES ASSUME Init PROVE TypeOK
  OBVIOUS
<1>1. proc \in [Procs -> ProcState]
  BY IdleTyped DEF Init
<1>2. source \in Source /\ manifest \in Manifests
  BY BoundsAreNat, KindsDiffer DEF Init, Source
<1>3. identities \subseteq Mine
  BY DEF Init, Mine
<1>4. typed \in 0..MaxCommands /\ events \in 0..MaxEvents
  BY BoundsAreNat DEF Init
<1> QED
  BY <1>1, <1>2, <1>3, <1>4 DEF Init, TypeOK, ProcState

(* What each step makes of its process.                                    *)
LEMMA StartTyped ==
  ASSUME TypeOK, NEW p \in Procs, NEW op \in {"load", "edit", "rekey"}, Start(p, op)
  PROVE  typed' \in 0..MaxCommands /\ proc' \in [Procs -> ProcState]
<1> DEFINE s == [Idle EXCEPT
         !.op = op, !.want = manifest,
         !.pc = IF manifest \cap YubiKeys = {} THEN "work" ELSE "enumerate",
         !.edit = IF op = "edit" THEN typed' ELSE 0, !.save = ~named,
         !.ownFile = manifest \cap YubiKeys = {} /\ named]
<1>1. typed' \in 0..MaxCommands
  BY BoundsAreNat DEF TypeOK, Start
<1>2. manifest \in SUBSET Recipients
  BY KindsDiffer DEF TypeOK
<1>3. s \in ProcState
  <2>1. (IF op = "edit" THEN typed' ELSE 0) \in 0..MaxCommands
    BY <1>1, BoundsAreNat
  <2>2. /\ (IF manifest \cap YubiKeys = {} THEN "work" ELSE "enumerate")
             \in {"work", "enumerate"}
        /\ (~named) \in BOOLEAN
        /\ (manifest \cap YubiKeys = {} /\ named) \in BOOLEAN
    BY Zenon
  <2>3. ASSUME NEW pc \in {"work", "enumerate"}, NEW edit \in 0..MaxCommands,
               NEW save \in BOOLEAN, NEW ownFile \in BOOLEAN
        PROVE  [Idle EXCEPT !.op = op, !.want = manifest, !.pc = pc, !.edit = edit,
                  !.save = save, !.ownFile = ownFile] \in ProcState
    BY <1>2, IdleTyped DEF ProcState
  <2> QED
    BY <2>1, <2>2, <2>3
<1>4. Becomes(p, s)
  BY DEF Start, Becomes
<1> QED
  BY <1>1, <1>3, <1>4, ProcStaysTyped

LEMMA EnumerateTyped ==
  ASSUME TypeOK, NEW p \in Procs, Enumerate(p)
  PROVE  proc' \in [Procs -> ProcState]
<1> DEFINE s == [proc[p] EXCEPT !.found = ConnectedIdentities(p), !.pc = "read"]
<1>1. s \in ProcState
  BY ProcTyped DEF ProcState, ConnectedIdentities, TypeOK
<1>2. Becomes(p, s)
  BY DEF Enumerate, Becomes, TypeOK
<1> QED
  BY <1>1, <1>2, ProcStaysTyped

LEMMA ReadTyped ==
  ASSUME TypeOK, NEW p \in Procs, ReadIdentities(p)
  PROVE  proc' \in [Procs -> ProcState]
<1> DEFINE merged == MergePersistent(identities, proc[p].found)
           s == [proc[p] EXCEPT !.merged = merged,
                   !.pc = IF NothingNew(merged) THEN "temporary" ELSE "write"]
<1>1. merged \subseteq Mine
  BY ProcTyped DEF MergePersistent, ProcState, TypeOK, Mine
<1>2. s \in ProcState
  BY <1>1, ProcTyped DEF ProcState
<1>3. Becomes(p, s)
  BY DEF ReadIdentities, Becomes, TypeOK
<1> QED
  BY <1>2, <1>3, ProcStaysTyped

LEMMA WriteTyped ==
  ASSUME TypeOK, NEW p \in Procs, WriteIdentities(p)
  PROVE  proc' \in [Procs -> ProcState]
<1>1. [proc[p] EXCEPT !.save = TRUE, !.pc = "temporary"] \in ProcState
  BY ProcTyped DEF ProcState
<1>2. Becomes(p, [proc[p] EXCEPT !.save = TRUE, !.pc = "temporary"])
  BY DEF WriteIdentities, Becomes, TypeOK
<1> QED
  BY <1>1, <1>2, ProcStaysTyped

LEMMA TemporaryTyped ==
  ASSUME TypeOK, NEW p \in Procs, MakeTemporary(p)
  PROVE  proc' \in [Procs -> ProcState]
<1> DEFINE s == [proc[p] EXCEPT
         !.effective = FilterEffective(proc[p].merged, proc[p].found),
         !.found = {}, !.merged = {}, !.save = FALSE,
         !.pc = IF proc[p].save THEN "settings" ELSE "work"]
<1>1. FilterEffective(proc[p].merged, proc[p].found) \subseteq Mine
  BY ProcTyped DEF FilterEffective, ProcState, Mine
<1>2. s \in ProcState
  BY <1>1, ProcTyped DEF ProcState
<1>3. Becomes(p, s)
  BY DEF MakeTemporary, Becomes, TypeOK
<1> QED
  BY <1>2, <1>3, ProcStaysTyped

LEMMA GotoTyped ==
  ASSUME TypeOK, NEW p \in Procs, NEW pc \in {"work", "rename"}, Goto(p, pc)
  PROVE  proc' \in [Procs -> ProcState]
<1>1. [proc[p] EXCEPT !.pc = pc] \in ProcState
  BY ProcTyped DEF ProcState
<1>2. Becomes(p, [proc[p] EXCEPT !.pc = pc])
  BY DEF Goto, Becomes, TypeOK
<1> QED
  BY <1>1, <1>2, ProcStaysTyped

LEMMA DecryptTyped ==
  ASSUME TypeOK, NEW p \in Procs, Decrypt(p)
  PROVE  proc' \in [Procs -> ProcState]
<1> DEFINE s == [proc[p] EXCEPT !.opened = source,
                   !.pc = IF proc[p].op = "edit" THEN "editing" ELSE "verify"]
<1>1. s \in ProcState
  BY ProcTyped DEF ProcState, TypeOK
<1>2. Becomes(p, s)
  BY DEF Decrypt, Becomes, TypeOK
<1> QED
  BY <1>1, <1>2, ProcStaysTyped

LEMMA IdleAgainTyped ==
  ASSUME TypeOK, NEW p \in Procs, proc' = [proc EXCEPT ![p] = Idle]
  PROVE  proc' \in [Procs -> ProcState]
  BY IdleTyped, ProcStaysTyped DEF Becomes

LEMMA UnfinishedTyped ==
  ASSUME TypeOK, NEW p \in Procs
  PROVE  Unfinished(p) \subseteq BOOLEAN
<1>1. leftover \in BOOLEAN
  BY DEF TypeOK
<1>2. (leftover \/ proc[p].pc \in {"write", "temporary"}) \in BOOLEAN
  OBVIOUS
<1> QED
  BY <1>1, <1>2, Zenon DEF Unfinished

LEMMA TypeNext == TypeOK /\ [Next]_vars => TypeOK'
<1> SUFFICES ASSUME TypeOK, [Next]_vars PROVE TypeOK'
  OBVIOUS
<1> USE DEF disk, history, bounds
<1>0. ASSUME proc' \in [Procs -> ProcState],
             source' \in Source, manifest' \in Manifests, connected' \subseteq YubiKeys,
             identities' \subseteq Mine, named' \in BOOLEAN,
             temporaries' \subseteq Procs, leftover' \in BOOLEAN,
             stale' \subseteq Procs, overlapped' \subseteq {"source", "identities"},
             told' \in Source, enrolled' \subseteq Mine,
             typed' \in 0..MaxCommands, events' \in 0..MaxEvents
      PROVE TypeOK'
  BY <1>0 DEF TypeOK, ProcState
<1>1. CASE ChangeManifest \/ PlugOrUnplug
  <2>1. events' \in 0..MaxEvents
    BY <1>1, BoundsAreNat DEF ChangeManifest, PlugOrUnplug, TypeOK
  <2> QED
    BY <1>1, <2>1 DEF ChangeManifest, PlugOrUnplug, TypeOK
<1>2. ASSUME NEW p \in Procs, NEW op \in {"load", "edit", "rekey"}, Start(p, op)
      PROVE TypeOK'
  <2>1. UNCHANGED <<disk, manifest, connected, history, events>>
    BY <1>2 DEF Start
  <2> QED
    BY <1>0, <1>2, <2>1, StartTyped DEF TypeOK
<1>3. ASSUME NEW p \in Procs, Enumerate(p) PROVE TypeOK'
  BY <1>0, <1>3, EnumerateTyped DEF Enumerate, TypeOK
<1>4. ASSUME NEW p \in Procs, ReadIdentities(p) PROVE TypeOK'
  BY <1>0, <1>4, ReadTyped DEF ReadIdentities, TypeOK
<1>5. ASSUME NEW p \in Procs, WriteIdentities(p) PROVE TypeOK'
  <2>1. proc[p].merged \subseteq Mine /\ proc[p].found \subseteq Mine
    BY ProcTyped DEF ProcState, Mine
  <2>2. stale' \subseteq Procs /\ overlapped' \subseteq {"source", "identities"}
    BY <1>5 DEF WriteIdentities, Overtake, TypeOK
  <2> QED
    BY <1>0, <1>5, <2>1, <2>2, WriteTyped DEF WriteIdentities, TypeOK
<1>6. ASSUME NEW p \in Procs, MakeTemporary(p) PROVE TypeOK'
  BY <1>0, <1>6, TemporaryTyped DEF MakeTemporary, TypeOK
<1>7. ASSUME NEW p \in Procs, NameIdentities(p) PROVE TypeOK'
  BY <1>0, <1>7, GotoTyped DEF NameIdentities, TypeOK
<1>8. ASSUME NEW p \in Procs, Load(p) \/ QuitEditor(p) PROVE TypeOK'
  BY <1>0, <1>8, IdleAgainTyped DEF Load, QuitEditor, Return, CleanedUp, TypeOK
<1>9. ASSUME NEW p \in Procs, Decrypt(p) PROVE TypeOK'
  BY <1>0, <1>9, DecryptTyped DEF Decrypt, TypeOK
<1>10. ASSUME NEW p \in Procs, SaveEdit(p) \/ Replace(p) PROVE TypeOK'
  <2>1. proc[p] \in ProcState /\ told \in Source
    BY ProcTyped DEF TypeOK
  <2>2. source' \in Source /\ told' \in Source
    BY <1>10, <2>1 DEF SaveEdit, Replace, WriteSource, RecipientsNow, ProcState, Source
  <2>3. stale' \subseteq Procs /\ overlapped' \subseteq {"source", "identities"}
    BY <1>10 DEF SaveEdit, Replace, WriteSource, Overtake, TypeOK
  <2> QED
    BY <1>0, <1>10, <2>2, <2>3, IdleAgainTyped
       DEF SaveEdit, Replace, Return, CleanedUp, TypeOK
<1>11. ASSUME NEW p \in Procs, Verify(p) PROVE TypeOK'
  BY <1>0, <1>11, GotoTyped DEF Verify, TypeOK
<1>12. ASSUME NEW p \in Procs, Refused(p) \/ Fails(p) PROVE TypeOK'
  <2>1. events' \in 0..MaxEvents
    BY <1>12, BoundsAreNat DEF Refused, Fails, TypeOK
  <2>2. leftover' \in BOOLEAN
    BY <1>12, UnfinishedTyped DEF Refused, Fails, TypeOK
  <2> QED
    BY <1>0, <1>12, <2>1, <2>2, IdleAgainTyped
       DEF Refused, Fails, GiveUp, Return, CleanedUp, TypeOK
<1>13. ASSUME NEW p \in Procs, Killed(p) PROVE TypeOK'
  <2>1. events' \in 0..MaxEvents
    BY <1>13, BoundsAreNat DEF Killed, TypeOK
  <2>2. leftover' \in BOOLEAN
    BY <1>13, UnfinishedTyped DEF Killed, TypeOK
  <2> QED
    BY <1>0, <1>13, <2>1, <2>2, IdleAgainTyped DEF Killed, TypeOK
<1>14. CASE UNCHANGED vars
  BY <1>14 DEF vars, TypeOK
<1> QED
  BY <1>1, <1>2, <1>3, <1>4, <1>5, <1>6, <1>7, <1>8, <1>9, <1>10, <1>11, <1>12, <1>13,
     <1>14 DEF Next, Step

(* Every variable stays within its type.                                   *)
THEOREM TypeCorrect == Spec => []TypeOK
  BY TypeInit, TypeNext, PTL DEF Spec
-----------------------------------------------------------------------------
(* The source.  A copy that no write has overtaken is the source as it is, *)
(* so writing it back changes only what the user was told; and whatever a  *)
(* process may still write can be decrypted by one of the user's keys.     *)

Holding == {"editing", "verify", "rename"}
FreshSource ==
    \A p \in Procs : proc[p].pc \in Holding /\ p \notin stale => proc[p].opened = source
Decryptable ==
    /\ source.keys \cap Mine # {}
    /\ \A p \in Procs :
         /\ proc[p].pc \in Holding => proc[p].opened.keys \cap Mine # {}
         /\ proc[p].pc = "rename" => proc[p].want \cap Mine # {}

SourceInv == SourceAsTold /\ FreshSource /\ Decryptable

LEMMA SourceInit == Init => SourceInv
  BY DEF Init, SourceInv, SourceAsTold, FreshSource, Decryptable, Holding, Idle

(* A step of one process that writes nothing to the source and does not    *)
(* come to hold a copy, or holds on to the one it has.                     *)
LEMMA SourceStays ==
  ASSUME TypeOK, SourceInv, UNCHANGED <<source, told>>, NEW p \in Procs,
         \A q \in Procs \ {p} : proc'[q] = proc[q],
         proc'[p].pc \notin Holding,
         "source" \in overlapped => "source" \in overlapped',
         \A q \in Procs \ {p} : q \in stale => q \in stale' \/ proc[q].pc \notin Holding
  PROVE  SourceInv'
<1>1. SourceAsTold'
  BY DEF SourceInv, SourceAsTold
<1>2. \A q \in Procs : proc'[q].pc \in Holding => q # p /\ proc'[q] = proc[q]
  OBVIOUS
<1>3. FreshSource'
  BY <1>2 DEF SourceInv, FreshSource
<1>4. Decryptable'
  <2>1. "rename" \in Holding
    BY DEF Holding
  <2> QED
    BY <1>2, <2>1 DEF SourceInv, Decryptable
<1> QED
  BY <1>1, <1>3, <1>4 DEF SourceInv

LEMMA SourceWritten ==
  ASSUME TypeOK, SourceInv, NEW p \in Procs, proc[p].pc \in Holding,
         NEW text, NEW keys, WriteSource(p, text, keys), keys \cap Mine # {},
         \/ p \notin stale => told' = [text |-> text, keys |-> keys]
         \/ "source" \in overlapped,
         proc' = [proc EXCEPT ![p] = Idle]
  PROVE  SourceInv'
<1>1. SourceAsTold'
  <2>1. CASE p \in stale
    BY <2>1 DEF WriteSource, Overtake, SourceAsTold
  <2>2. CASE p \notin stale
    BY <2>2 DEF WriteSource, Overtake, SourceAsTold
  <2> QED
    BY <2>1, <2>2
<1>2. \A q \in Procs : proc'[q].pc \in Holding => q # p /\ proc'[q] = proc[q]
  BY DEF TypeOK, Holding, Idle
<1>3. FreshSource'
  BY <1>2 DEF FreshSource, WriteSource, Overtake, Holding
<1>4. Decryptable'
  <2>1. source'.keys \cap Mine # {}
    BY DEF WriteSource
  <2>2. "rename" \in Holding
    BY DEF Holding
  <2> QED
    BY <1>2, <2>1, <2>2 DEF Decryptable, SourceInv
<1> QED
  BY <1>1, <1>3, <1>4 DEF SourceInv

LEMMA UsableIsMine ==
  ASSUME TypeOK, NEW p \in Procs
  PROVE  Usable(p) \subseteq Mine
<1>1. proc[p] \in ProcState
  BY ProcTyped
<1> QED
  BY <1>1 DEF Usable, ProcState, TypeOK

LEMMA SourceNext == TypeOK /\ SourceInv /\ [Next]_vars => SourceInv'
<1> SUFFICES ASSUME TypeOK, SourceInv, [Next]_vars PROVE SourceInv'
  OBVIOUS
<1> USE DEF disk, history, bounds
<1>1. CASE UNCHANGED <<source, told, proc, stale, overlapped>>
  BY <1>1 DEF SourceInv, SourceAsTold, FreshSource, Decryptable
<1>2. ASSUME NEW p \in Procs, NEW op \in {"load", "edit", "rekey"}, Start(p, op)
      PROVE SourceInv'
  <2>1. /\ \A q \in Procs \ {p} : proc'[q] = proc[q]
        /\ proc'[p].pc \in {"work", "enumerate"}
    BY <1>2 DEF Start, TypeOK, Idle
  <2> QED
    BY <1>2, <2>1, SourceStays DEF Start, Holding
<1>3. ASSUME NEW p \in Procs,
             Enumerate(p) \/ ReadIdentities(p) \/ MakeTemporary(p) \/ NameIdentities(p)
      PROVE SourceInv'
  <2>1. /\ \A q \in Procs \ {p} : proc'[q] = proc[q]
        /\ proc'[p].pc \in {"read", "temporary", "write", "settings", "work"}
    BY <1>3 DEF Enumerate, ReadIdentities, MakeTemporary, NameIdentities, Goto, TypeOK
  <2>2. /\ UNCHANGED <<source, told, overlapped>>
        /\ \A q \in Procs \ {p} : q \in stale => q \in stale'
    BY <1>3 DEF Enumerate, ReadIdentities, MakeTemporary, NameIdentities
  <2> QED
    BY <2>1, <2>2, SourceStays DEF Holding
<1>4. ASSUME NEW p \in Procs, WriteIdentities(p) PROVE SourceInv'
  <2>1. /\ \A q \in Procs \ {p} : proc'[q] = proc[q]
        /\ proc'[p].pc = "temporary"
    BY <1>4 DEF WriteIdentities, TypeOK
  <2>2. /\ UNCHANGED <<source, told>>
        /\ "source" \in overlapped => "source" \in overlapped'
        /\ \A q \in Procs \ {p} : q \in stale => q \in stale'
    BY <1>4 DEF WriteIdentities, Overtake
  <2> QED
    BY <2>1, <2>2, SourceStays DEF Holding
<1>5. ASSUME NEW p \in Procs,
             Load(p) \/ QuitEditor(p) \/ Refused(p) \/ Fails(p) \/ Killed(p)
      PROVE SourceInv'
  <2>1. proc' = [proc EXCEPT ![p] = Idle]
    BY <1>5 DEF Load, QuitEditor, Refused, Fails, Killed, GiveUp, Return
  <2>2. /\ UNCHANGED <<source, told, overlapped>>
        /\ stale' = stale \ {p}
    BY <1>5 DEF Load, QuitEditor, Refused, Fails, Killed, GiveUp
  <2>3. /\ \A q \in Procs \ {p} : proc'[q] = proc[q]
        /\ proc'[p].pc = "idle"
    BY <2>1 DEF TypeOK, Idle
  <2> QED
    BY <2>2, <2>3, SourceStays DEF Holding
<1>6. ASSUME NEW p \in Procs, Decrypt(p) PROVE SourceInv'
  <2>1. /\ \A q \in Procs \ {p} : proc'[q] = proc[q]
        /\ proc'[p].opened = source /\ proc'[p].pc \in {"editing", "verify"}
    BY <1>6 DEF Decrypt, TypeOK
  <2>2. UNCHANGED <<source, told, overlapped>> /\ stale' = stale \ {p}
    BY <1>6 DEF Decrypt
  <2> QED
    BY <2>1, <2>2 DEF SourceInv, SourceAsTold, FreshSource, Decryptable, Holding
<1>7. ASSUME NEW p \in Procs, Verify(p) PROVE SourceInv'
  <2>1. /\ \A q \in Procs \ {p} : proc'[q] = proc[q]
        /\ proc'[p] = [proc[p] EXCEPT !.pc = "rename"]
        /\ proc[p] \in ProcState
    BY <1>7, ProcTyped DEF Verify, Goto, TypeOK
  <2>2. proc[p].want \cap Mine # {}
    BY <1>7, UsableIsMine DEF Verify, Verifies, Opens
  <2>3. UNCHANGED <<source, told, overlapped, stale>> /\ proc[p].pc = "verify"
    BY <1>7 DEF Verify
  <2>4. /\ proc'[p].opened = proc[p].opened /\ proc'[p].want = proc[p].want
        /\ proc[p].pc \in Holding
    BY <2>1, <2>3 DEF ProcState, Holding
  <2> QED
    BY <2>1, <2>2, <2>3, <2>4 DEF SourceInv, SourceAsTold, FreshSource, Decryptable
<1>8. ASSUME NEW p \in Procs, SaveEdit(p) PROVE SourceInv'
  <2>1. proc[p].pc \in Holding
    BY <1>8 DEF SaveEdit, Holding
  <2>2. p \notin stale /\ source = told =>
          told' = [text |-> proc[p].edit, keys |-> proc[p].opened.keys]
    BY <1>8, <2>1 DEF SaveEdit, SourceInv, FreshSource, TypeOK, Source
  <2>3. CASE source = told
    BY <1>8, <2>1, <2>2, <2>3, SourceWritten
       DEF SaveEdit, Return, SourceInv, Decryptable
  <2>4. CASE source # told
    BY <1>8, <2>1, <2>4, SourceWritten
       DEF SaveEdit, Return, SourceInv, Decryptable, SourceAsTold
  <2> QED
    BY <2>3, <2>4
<1>9. ASSUME NEW p \in Procs, Replace(p) PROVE SourceInv'
  <2>1. proc[p].pc \in Holding
    BY <1>9 DEF Replace, Holding
  <2>2. p \notin stale /\ source = told =>
          told' = [text |-> proc[p].opened.text, keys |-> proc[p].want]
    BY <1>9, <2>1 DEF Replace, SourceInv, FreshSource, TypeOK, Source
  <2>3. proc[p].want \cap Mine # {}
    BY <1>9 DEF Replace, SourceInv, Decryptable
  <2>4. CASE source = told
    BY <1>9, <2>1, <2>2, <2>3, <2>4, SourceWritten DEF Replace, Return, RecipientsNow
  <2>5. CASE source # told
    BY <1>9, <2>1, <2>3, <2>5, SourceWritten
       DEF Replace, Return, RecipientsNow, SourceInv, SourceAsTold
  <2> QED
    BY <2>4, <2>5
<1> QED
  BY <1>1, <1>2, <1>3, <1>4, <1>5, <1>6, <1>7, <1>8, <1>9
     DEF Next, Step, ChangeManifest, PlugOrUnplug, vars

LEMMA SourceInvariant == Spec => [](TypeOK /\ SourceInv)
<1>1. TypeOK /\ SourceInv /\ [Next]_vars => TypeOK' /\ SourceInv'
  BY TypeNext, SourceNext
<1> QED
  BY TypeInit, SourceInit, <1>1, PTL DEF Spec

(* The source is as it was last told to be, unless a copy that another     *)
(* write had overtaken was written over it.                                *)
THEOREM SourceIsAsTold == Spec => []SourceAsTold
<1>1. SourceInv => SourceAsTold
  BY DEF SourceInv
<1> QED
  BY SourceInvariant, <1>1, PTL

(* One of the user's identities decrypts the source, always.               *)
THEOREM NeverLockedOut == Spec => []NotLockedOut
<1>1. SourceInv => NotLockedOut
  BY DEF SourceInv, Decryptable, NotLockedOut
<1> QED
  BY SourceInvariant, <1>1, PTL
-----------------------------------------------------------------------------
(* The temporary identity file appears in MakeTemporary, and every way back*)
(* to "idle" deletes it; so no command that starts finds one.              *)

Before == {"idle", "enumerate", "read", "write", "temporary"}
NoneBefore == \A p \in Procs : proc[p].pc \in Before => p \notin temporaries

LEMMA NoneBeforeInit == Init => NoneBefore
  BY DEF Init, NoneBefore

LEMMA NoneBeforeNext == TypeOK /\ NoneBefore /\ [Next]_vars => NoneBefore'
<1> SUFFICES ASSUME TypeOK, NoneBefore, [Next]_vars PROVE NoneBefore'
  OBVIOUS
<1> USE DEF disk, history, bounds
<1>1. CASE ChangeManifest \/ PlugOrUnplug \/ UNCHANGED vars
  BY <1>1 DEF ChangeManifest, PlugOrUnplug, vars, NoneBefore
<1>2. ASSUME NEW p \in Procs, proc[p].pc \in Before, UNCHANGED temporaries,
             \A q \in Procs \ {p} : proc'[q] = proc[q]
      PROVE NoneBefore'
  BY <1>2 DEF NoneBefore
<1>3. ASSUME NEW p \in Procs, temporaries' = temporaries \ {p},
             \A q \in Procs \ {p} : proc'[q] = proc[q]
      PROVE NoneBefore'
  BY <1>3 DEF NoneBefore
<1>4. ASSUME NEW p \in Procs, proc'[p].pc \notin Before,
             temporaries' \subseteq temporaries \cup {p},
             \A q \in Procs \ {p} : proc'[q] = proc[q]
      PROVE NoneBefore'
  BY <1>4 DEF NoneBefore
<1>5. ASSUME NEW p \in Procs,
             (\E op \in {"load", "edit", "rekey"} : Start(p, op))
               \/ Enumerate(p) \/ ReadIdentities(p) \/ WriteIdentities(p)
      PROVE NoneBefore'
  <2>1. \A q \in Procs \ {p} : proc'[q] = proc[q]
    BY <1>5 DEF Start, Enumerate, ReadIdentities, WriteIdentities, TypeOK
  <2>2. proc[p].pc \in Before /\ UNCHANGED temporaries
    BY <1>5 DEF Start, Enumerate, ReadIdentities, WriteIdentities, Before
  <2> QED
    BY <1>2, <2>1, <2>2
<1>6. ASSUME NEW p \in Procs, MakeTemporary(p) \/ NameIdentities(p) \/ Decrypt(p) \/ Verify(p)
      PROVE NoneBefore'
  <2>1. \A q \in Procs \ {p} : proc'[q] = proc[q]
    BY <1>6 DEF MakeTemporary, NameIdentities, Decrypt, Verify, Goto, TypeOK
  <2>2. proc'[p].pc \in {"settings", "work", "editing", "verify", "rename"}
    BY <1>6 DEF MakeTemporary, NameIdentities, Decrypt, Verify, Goto, TypeOK
  <2>3. temporaries' \subseteq temporaries \cup {p}
    BY <1>6 DEF MakeTemporary, NameIdentities, Decrypt, Verify
  <2> QED
    BY <1>4, <2>1, <2>2, <2>3 DEF Before
<1>7. ASSUME NEW p \in Procs,
             Load(p) \/ SaveEdit(p) \/ QuitEditor(p) \/ Replace(p)
               \/ Refused(p) \/ Fails(p) \/ Killed(p)
      PROVE NoneBefore'
  <2>1. /\ proc' = [proc EXCEPT ![p] = Idle]
        /\ temporaries' = temporaries \ {p}
    BY <1>7 DEF Load, SaveEdit, QuitEditor, Replace, Refused, Fails, Killed, GiveUp, Return,
                CleanedUp
  <2>2. \A q \in Procs \ {p} : proc'[q] = proc[q]
    BY <2>1 DEF TypeOK
  <2> QED
    BY <1>3, <2>1, <2>2
<1> QED
  BY <1>1, <1>5, <1>6, <1>7 DEF Next, Step

(* However a command ends, unless by a kill, its temporary identity file is*)
(* gone.                                                                   *)
THEOREM TemporaryIsDeleted == Spec => []TemporaryDeletedUnlessKilled
<1>1. NoneBefore => TemporaryDeletedUnlessKilled
  BY DEF NoneBefore, Before, TemporaryDeletedUnlessKilled
<1>2. TypeOK /\ NoneBefore /\ [Next]_vars => TypeOK' /\ NoneBefore'
  BY TypeNext, NoneBeforeNext
<1> QED
  BY TypeInit, NoneBeforeInit, <1>1, <1>2, PTL DEF Spec
-----------------------------------------------------------------------------
(* Enrolled identities.  What a process is about to write contains the     *)
(* file it read; only a YubiKey's identity can be missing from it, and only*)
(* when another write has overtaken that reading.                          *)

MergedKeeps ==
    \A p \in Procs : proc[p].pc = "write" =>
        /\ p \notin stale => identities \subseteq proc[p].merged
        /\ proc[p].found \subseteq proc[p].merged
        /\ enrolled \cap AgeKeys \subseteq proc[p].merged

KeepInv == IdentitiesKept /\ MergedKeeps

LEMMA KeepInit == Init => KeepInv
  BY DEF Init, KeepInv, IdentitiesKept, MergedKeeps, Idle

LEMMA KeepStays ==
  ASSUME KeepInv, UNCHANGED <<identities, enrolled>>, NEW p \in Procs,
         \A q \in Procs \ {p} : proc'[q] = proc[q],
         proc'[p].pc # "write",
         "identities" \in overlapped => "identities" \in overlapped',
         \A q \in Procs \ {p} : q \in stale => q \in stale'
  PROVE  KeepInv'
<1>1. IdentitiesKept'
  BY DEF KeepInv, IdentitiesKept
<1>2. MergedKeeps'
  BY DEF KeepInv, MergedKeeps
<1> QED
  BY <1>1, <1>2 DEF KeepInv

LEMMA KeepNext == TypeOK /\ KeepInv /\ [Next]_vars => KeepInv'
<1> SUFFICES ASSUME TypeOK, KeepInv, [Next]_vars PROVE KeepInv'
  OBVIOUS
<1> USE DEF disk, history, bounds
<1>1. CASE ChangeManifest \/ PlugOrUnplug \/ UNCHANGED vars
  BY <1>1 DEF ChangeManifest, PlugOrUnplug, vars, KeepInv, IdentitiesKept, MergedKeeps
<1>2. ASSUME NEW p \in Procs,
             (\E op \in {"load", "edit", "rekey"} : Start(p, op))
               \/ Enumerate(p) \/ MakeTemporary(p) \/ NameIdentities(p) \/ Decrypt(p)
               \/ Verify(p)
      PROVE KeepInv'
  <2>1. \A q \in Procs \ {p} : proc'[q] = proc[q]
    BY <1>2 DEF Start, Enumerate, MakeTemporary, NameIdentities, Decrypt, Verify, Goto, TypeOK
  <2>2. proc'[p].pc \in {"work", "enumerate", "read", "settings", "editing", "verify", "rename"}
    <3>1. CASE \E op \in {"load", "edit", "rekey"} : Start(p, op)
      BY <3>1 DEF Start, TypeOK, Idle
    <3>2. CASE Enumerate(p)
      BY <3>2 DEF Enumerate, TypeOK
    <3>3. CASE MakeTemporary(p)
      BY <3>3 DEF MakeTemporary, TypeOK
    <3>4. CASE NameIdentities(p) \/ Decrypt(p) \/ Verify(p)
      BY <3>4 DEF NameIdentities, Decrypt, Verify, Goto, TypeOK
    <3> QED
      BY <1>2, <3>1, <3>2, <3>3, <3>4
  <2>3. /\ UNCHANGED <<identities, enrolled, overlapped>>
        /\ stale' = stale \/ stale' = stale \ {p}
    BY <1>2 DEF Start, Enumerate, MakeTemporary, NameIdentities, Decrypt, Verify
  <2>4. proc'[p].pc # "write"
    BY <2>2
  <2>5. \A q \in Procs \ {p} : q \in stale => q \in stale'
    BY <2>3
  <2> QED
    BY <2>1, <2>3, <2>4, <2>5, KeepStays
<1>3. ASSUME NEW p \in Procs,
             Load(p) \/ QuitEditor(p) \/ Refused(p) \/ Fails(p) \/ Killed(p)
               \/ SaveEdit(p) \/ Replace(p)
      PROVE KeepInv'
  <2>1. proc' = [proc EXCEPT ![p] = Idle]
    BY <1>3 DEF Load, QuitEditor, Refused, Fails, Killed, GiveUp, Return, SaveEdit, Replace
  <2>2. /\ \A q \in Procs \ {p} : proc'[q] = proc[q]
        /\ proc'[p].pc # "write"
    BY <2>1 DEF TypeOK, Idle
  <2>3. /\ UNCHANGED <<identities, enrolled>>
        /\ "identities" \in overlapped => "identities" \in overlapped'
        /\ \A q \in Procs \ {p} : q \in stale => q \in stale'
    BY <1>3 DEF Load, QuitEditor, Refused, Fails, Killed, GiveUp, SaveEdit, Replace,
                WriteSource, Overtake
  <2> QED
    BY <2>2, <2>3, KeepStays
<1>4. ASSUME NEW p \in Procs, ReadIdentities(p) PROVE KeepInv'
  <2>1. /\ UNCHANGED <<identities, enrolled, overlapped>>
        /\ stale' = stale \ {p}
        /\ \A q \in Procs \ {p} : proc'[q] = proc[q]
        /\ proc'[p].merged = identities \cup proc[p].found
        /\ proc'[p].found = proc[p].found
    BY <1>4, ProcTyped DEF ReadIdentities, MergePersistent, TypeOK
  <2>2. IdentitiesKept'
    BY <2>1 DEF KeepInv, IdentitiesKept
  <2>3. MergedKeeps'
    BY <2>1 DEF KeepInv, IdentitiesKept, MergedKeeps
  <2> QED
    BY <2>2, <2>3 DEF KeepInv
<1>5. ASSUME NEW p \in Procs, WriteIdentities(p) PROVE KeepInv'
  <2>1. /\ proc[p].pc = "write"
        /\ identities' = proc[p].merged
        /\ enrolled' = enrolled \cup proc[p].found
        /\ \A q \in Procs \ {p} : proc'[q] = proc[q]
        /\ proc'[p].pc = "temporary"
    BY <1>5 DEF WriteIdentities, TypeOK
  <2>2. /\ overlapped' = IF p \in stale THEN overlapped \cup {"identities"} ELSE overlapped
        /\ stale' = (stale \ {p}) \cup {q \in Procs \ {p} : proc[q].pc = "write"}
    BY <1>5 DEF WriteIdentities, Overtake
  <2>3. proc[p].found \cap AgeKeys = {}
    BY ProcTyped, KindsDiffer DEF ProcState
  <2>4. IdentitiesKept'
    BY <2>1, <2>2, <2>3 DEF KeepInv, IdentitiesKept, MergedKeeps
  <2>5. MergedKeeps'
    BY <2>1, <2>2, <2>3 DEF KeepInv, MergedKeeps
  <2> QED
    BY <2>4, <2>5 DEF KeepInv
<1> QED
  BY <1>1, <1>2, <1>3, <1>4, <1>5 DEF Next, Step

(* No identity that was enrolled is lost, but a YubiKey's to a copy that   *)
(* another enrolment had overtaken.                                        *)
THEOREM IdentitiesAreKept == Spec => []IdentitiesKept
<1>1. KeepInv => IdentitiesKept
  BY DEF KeepInv
<1>2. TypeOK /\ KeepInv /\ [Next]_vars => TypeOK' /\ KeepInv'
  BY TypeNext, KeepNext
<1> QED
  BY TypeInit, KeepInit, <1>1, <1>2, PTL DEF Spec
=============================================================================
