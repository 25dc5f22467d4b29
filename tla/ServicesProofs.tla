--------------------------- MODULE ServicesProofs ---------------------------
(***************************************************************************)
(* The parts around the runs, each for any values of its constants, and at *)
(* the end what MCServices composes of them.                               *)
(***************************************************************************)
EXTENDS MCServices, AccountsProofs, FiniteTheorems

-----------------------------------------------------------------------------
(***************************************************************************)
(* Destinations: TemplateLostOnlyToRace for any templates and any number   *)
(* of PATCH requests in progress. A request in progress carries what its   *)
(* check accepted: the row it saw, with its fields, is one that has its    *)
(* template.                                                               *)
(***************************************************************************)

WasAccepted(p) == p.busy => EffectivePayloadConfigIsValid(Effective(p.seen, p.new, p.fields))
DestinationInv == DestinationTypeOK /\ \A k \in Patches : WasAccepted(patching[k])

\* The fields of one payload in another give a payload.
LEMMA MergedIsPayload ==
    ASSUME NEW old \in Payload, NEW new \in Payload, NEW F
    PROVE  Merged(old, new, F) \in Payload
BY DEF Merged, Payload

LEMMA DestinationStart == DestinationInit => DestinationInv
<1> SUFFICES ASSUME DestinationInit PROVE DestinationInv
  OBVIOUS
<1>1. Plain \in Payload /\ NoPatch \in Patching /\ ~NoPatch.busy
  BY DEF Plain, Payload, NoPatch, Patching
<1>2. DestinationTypeOK
  BY <1>1, DestinationAssumption DEF DestinationInit, DestinationTypeOK, DestRow
<1>3. \A k \in Patches : WasAccepted(patching[k])
  BY <1>1 DEF DestinationInit, WasAccepted
<1> QED
  BY <1>2, <1>3 DEF DestinationInv

\* The row keeps its type, and so do the secrets given out and what is sent.
LEMMA DestinationStep == DestinationInv /\ [DestinationNext]_destinationVars => DestinationInv'
<1> SUFFICES ASSUME DestinationInv, [DestinationNext]_destinationVars PROVE DestinationInv'
  OBVIOUS
<1> USE DestinationAssumption
<1>a. DestinationTypeOK /\ \A k \in Patches : WasAccepted(patching[k])
  BY DEF DestinationInv
<1>b. NoPatch \in Patching /\ ~NoPatch.busy
  BY DEF Plain, Payload, NoPatch, Patching
<1>c. ASSUME UNCHANGED patching PROVE \A k \in Patches : WasAccepted(patching[k])'
  BY <1>a, <1>c DEF WasAccepted
<1>1. ASSUME NEW p \in Payload, NEW sign \in BOOLEAN, CreateDestination(p, sign) PROVE DestinationInv'
  <2>1. settings' \in 1..MaxSettings
    BY <1>1, <1>a DEF CreateDestination, Setting, DestinationTypeOK
  <2>2. dest' \in DestRow
    BY <1>1, <2>1 DEF CreateDestination, DestRow
  <2>3. givenOut' \subseteq 1..MaxSettings
    BY <1>1, <1>a, <2>1 DEF CreateDestination, GiveOut, DestinationTypeOK
  <2> QED
    BY <1>1, <1>a, <1>c, <2>1, <2>2, <2>3 DEF CreateDestination, DestinationTypeOK, DestinationInv
<1>2. ASSUME NEW k \in Patches, WritePayload(k) PROVE DestinationInv'
  <2>1. Merged(dest.payload, patching[k].new, patching[k].fields) \in Payload
    BY <1>a, MergedIsPayload DEF DestinationTypeOK, DestRow, Patching
  <2>2. DestinationTypeOK'
    BY <1>2, <1>a, <1>b, <2>1 DEF WritePayload, DestinationTypeOK, DestRow
  <2>3. \A h \in Patches : WasAccepted(patching[h])'
    BY <1>2, <1>a, <1>b DEF WritePayload, DestinationTypeOK, WasAccepted
  <2> QED
    BY <2>2, <2>3 DEF DestinationInv
<1>3. ASSUME NEW k \in Patches, NEW new \in Payload, NEW F \in SUBSET PayloadFields, BeginPatchPayload(k, new, F)
      PROVE  DestinationInv'
  <2> DEFINE p == [busy |-> TRUE, seen |-> dest.payload, new |-> new, fields |-> F]
  <2>1. p \in Patching
    BY <1>a DEF DestinationTypeOK, DestRow, Patching
  <2>2. patching' = [patching EXCEPT ![k] = p] /\ UNCHANGED <<dest, givenOut, sending>>
    BY <1>3 DEF BeginPatchPayload
  <2>3. settings' \in 0..MaxSettings
    BY <1>3, <1>a DEF BeginPatchPayload, Setting, DestinationTypeOK
  <2>4. WasAccepted(p)
    BY <1>3 DEF BeginPatchPayload, WasAccepted
  <2> HIDE DEF p
  <2>5. DestinationTypeOK'
    BY <1>a, <2>1, <2>2, <2>3 DEF DestinationTypeOK
  <2>6. \A h \in Patches : WasAccepted(patching[h])'
    <3> SUFFICES ASSUME NEW h \in Patches PROVE WasAccepted(patching'[h])
      BY DEF WasAccepted
    <3>1. CASE h = k
      BY <3>1, <1>a, <2>2, <2>4 DEF DestinationTypeOK
    <3>2. CASE h # k
      BY <3>2, <1>a, <2>2 DEF DestinationTypeOK
    <3> QED
      BY <3>1, <3>2
  <2> QED
    BY <2>5, <2>6 DEF DestinationInv
<1>4. CASE SwitchSigning
  <2>1. settings' \in 0..MaxSettings
    BY <1>4, <1>a DEF SwitchSigning, Setting, DestinationTypeOK
  <2>2. PICK b \in BOOLEAN : dest' = [dest EXCEPT !.sign = b]
    BY <1>4 DEF SwitchSigning
  <2>3. dest' \in DestRow
    BY <1>a, <2>2 DEF DestinationTypeOK, DestRow
  <2> QED
    BY <1>4, <1>a, <1>c, <2>1, <2>3 DEF SwitchSigning, DestinationTypeOK, DestinationInv
<1>5. CASE RotateSecret
  <2>1. settings' \in 1..MaxSettings
    BY <1>5, <1>a DEF RotateSecret, Setting, DestinationTypeOK
  <2>2. dest' \in DestRow
    BY <1>5, <1>a, <2>1 DEF RotateSecret, DestinationTypeOK, DestRow
  <2>3. givenOut' \subseteq 1..MaxSettings
    BY <1>5, <1>a, <2>1 DEF RotateSecret, GiveOut, DestinationTypeOK
  <2> QED
    BY <1>5, <1>a, <1>c, <2>1, <2>2, <2>3 DEF RotateSecret, DestinationTypeOK, DestinationInv
<1>6. CASE DeleteDestination
  BY <1>6, <1>a, <1>c DEF DeleteDestination, DestinationTypeOK, DestRow, DestinationInv
<1>7. ASSUME NEW test \in BOOLEAN, Compose(test) PROVE DestinationInv'
  BY <1>7, <1>a, <1>c DEF Compose, Body, SigningKey, Sent, DestinationTypeOK, DestRow, Payload, DestinationInv
<1>8. CASE SendEnds
  BY <1>8, <1>a, <1>c DEF SendEnds, DestinationTypeOK, DestinationInv
<1>9. CASE UNCHANGED destinationVars
  BY <1>9, <1>a, <1>c DEF destinationVars, DestinationTypeOK, DestinationInv
<1> QED
  BY <1>1, <1>2, <1>3, <1>4, <1>5, <1>6, <1>7, <1>8, <1>9 DEF DestinationNext

\* Every write of the payload but a PATCH leaves it alone or has checked it.
LEMMA OnlyPatchesLose ==
    ASSUME DestinationInv, DestinationNext,
           EffectivePayloadConfigIsValid(dest.payload), ~EffectivePayloadConfigIsValid(dest'.payload)
    PROVE  \E k \in Patches : patching[k].busy /\ ~patching'[k].busy /\ patching[k].seen # dest.payload
<1>a. DestinationTypeOK /\ \A k \in Patches : WasAccepted(patching[k])
  BY DEF DestinationInv
<1>b. dest'.payload # dest.payload
  OBVIOUS
<1>1. ASSUME NEW p \in Payload, NEW sign \in BOOLEAN, CreateDestination(p, sign) PROVE FALSE
  BY <1>1 DEF CreateDestination
<1>2. PICK k \in Patches : WritePayload(k)
  BY <1>1, <1>a, <1>b DEF DestinationNext, BeginPatchPayload, SwitchSigning, RotateSecret, DeleteDestination,
        Compose, SendEnds, DestinationTypeOK, DestRow
<1>3. patching[k].busy /\ ~patching'[k].busy
  BY <1>2, <1>a DEF WritePayload, DestinationTypeOK, NoPatch
<1>4. dest'.payload = Merged(dest.payload, patching[k].new, patching[k].fields)
  BY <1>2, <1>a, <1>b DEF WritePayload, DestinationTypeOK, DestRow
<1>5. patching[k].seen # dest.payload
  BY <1>3, <1>4, <1>a DEF WasAccepted, Effective
<1> QED
  BY <1>3, <1>5

LEMMA DestinationInvariance == DestinationSpec => []DestinationInv
BY DestinationStart, DestinationStep, PTL DEF DestinationSpec

\* However many PATCH requests there are, and whatever they set, a row loses the
\* template it asks for only to a request that had checked another row
\* (webhookDestinations.ts, effectivePayloadConfigIsValid).
THEOREM TemplateKept == DestinationSpec => TemplateLostOnlyToRace
<1> DEFINE Lost == EffectivePayloadConfigIsValid(dest.payload) /\ ~EffectivePayloadConfigIsValid(dest'.payload)
           ByRace == \E k \in Patches : patching[k].busy /\ ~patching'[k].busy /\ patching[k].seen # dest.payload
<1>1. DestinationInv /\ [DestinationNext]_destinationVars => [Lost => ByRace]_destinationVars
  BY OnlyPatchesLose DEF destinationVars
<1> QED
  BY <1>1, DestinationInvariance, PTL DEF DestinationSpec, TemplateLostOnlyToRace

-----------------------------------------------------------------------------
(***************************************************************************)
(* PDFs: SlotsAccounted for any number of requests and of slots. It is     *)
(* nearly inductive: a report that nobody asked for yet must not be in the *)
(* service, or its place in the queue could be taken twice; and one whose  *)
(* browser could not be launched must not leave one behind.                *)
(***************************************************************************)

\* What was not asked for is not in the service.
AskedFirst == \A c \in Calls : asker[c] = "idle" => making[c] = "none"

\* What has a browser is past its launch.
PastLaunch == \A c \in browsers : making[c] # "launch"

RendererInv == RendererTypeOK /\ SlotsAccounted /\ AskedFirst /\ PastLaunch

-----------------------------------------------------------------------------
(* The queue                                                               *)

\* A report joins the end of the queue.
LEMMA Joined ==
    ASSUME NEW q \in Seq(Calls), NEW c \in Calls, c \notin {q[i] : i \in 1..Len(q)},
           \A i, j \in 1..Len(q) : q[i] = q[j] => i = j
    PROVE  /\ Append(q, c) \in Seq(Calls) /\ Append(q, c) # <<>>
           /\ {Append(q, c)[i] : i \in 1..Len(Append(q, c))} = {q[i] : i \in 1..Len(q)} \cup {c}
           /\ \A i, j \in 1..Len(Append(q, c)) : Append(q, c)[i] = Append(q, c)[j] => i = j
<1> DEFINE r == Append(q, c)
<1>1. r \in Seq(Calls) /\ Len(r) = Len(q) + 1 /\ r # <<>>
  OBVIOUS
<1>2. \A i \in 1..Len(q) : r[i] = q[i]
  OBVIOUS
<1>3. r[Len(q) + 1] = c
  OBVIOUS
<1>4. 1..Len(r) = 1..Len(q) \cup {Len(q) + 1} /\ Len(q) \in Nat
  BY <1>1
<1> HIDE DEF r
<1>5. {r[i] : i \in 1..Len(r)} = {q[i] : i \in 1..Len(q)} \cup {c}
  BY <1>2, <1>3, <1>4
<1>6. \A i, j \in 1..Len(r) : r[i] = r[j] => i = j
  BY <1>2, <1>3, <1>4
<1> QED
  BY <1>1, <1>5, <1>6 DEF r

\* The head of the queue leaves it.
LEMMA Left ==
    ASSUME NEW q \in Seq(Calls), q # <<>>,
           \A i, j \in 1..Len(q) : q[i] = q[j] => i = j
    PROVE  /\ Head(q) \in {q[i] : i \in 1..Len(q)} /\ Tail(q) \in Seq(Calls)
           /\ {Tail(q)[i] : i \in 1..Len(Tail(q))} = {q[i] : i \in 1..Len(q)} \ {Head(q)}
           /\ \A i, j \in 1..Len(Tail(q)) : Tail(q)[i] = Tail(q)[j] => i = j
<1> DEFINE r == Tail(q)
           n == Len(q)
<1>1. n \in Nat \ {0} /\ r \in Seq(Calls) /\ Len(r) = n - 1 /\ Head(q) = q[1]
  OBVIOUS
<1>2. \A i \in 1..Len(r) : r[i] = q[i + 1] /\ i + 1 \in 1..n
  OBVIOUS
<1> HIDE DEF r, n
<1>3. \A i \in 2..n : i - 1 \in 1..Len(r) /\ r[i - 1] = q[i]
  BY <1>1, <1>2
<1>4. \A i \in 2..n : q[i] # q[1]
  BY <1>1 DEF n
<1>5. ASSUME NEW x PROVE x \in {r[i] : i \in 1..Len(r)} <=> x \in {q[i] : i \in 1..n} \ {q[1]}
  <2>1. ASSUME NEW i \in 1..Len(r), x = r[i] PROVE x \in {q[k] : k \in 1..n} \ {q[1]}
    <3>1. x = q[i + 1] /\ i + 1 \in 2..n
      BY <1>1, <1>2, <2>1
    <3> QED
      BY <1>1, <1>4, <3>1
  <2>2. ASSUME NEW i \in 1..n, x = q[i], x # q[1] PROVE x \in {r[k] : k \in 1..Len(r)}
    <3>1. i \in 2..n
      BY <2>2
    <3> QED
      BY <1>3, <2>2, <3>1
  <2> QED
    BY <2>1, <2>2
<1>6. \A i, j \in 1..Len(r) : r[i] = r[j] => i = j
  BY <1>1, <1>2 DEF n
<1>7. Head(q) \in {q[i] : i \in 1..n}
  BY <1>1
<1> QED
  BY <1>1, <1>5, <1>6, <1>7 DEF r, n

-----------------------------------------------------------------------------
(* The holders                                                             *)

LEMMA HoldersFinite == IsFiniteSet(SlotHolders) /\ Cardinality(SlotHolders) \in Nat
  BY RendererAssumption, FS_Subset, FS_CardinalityType DEF SlotHolders

\* One more holder is one more.
LEMMA OneMore ==
    ASSUME NEW H, IsFiniteSet(H), NEW c, c \notin H
    PROVE  Cardinality(H \cup {c}) = Cardinality(H) + 1
  BY FS_AddElement

\* One holder fewer is one less, and there was one.
LEMMA OneLess ==
    ASSUME NEW H, IsFiniteSet(H), NEW c \in H
    PROVE  Cardinality(H \ {c}) = Cardinality(H) - 1 /\ Cardinality(H) \in Nat \ {0}
<1>1. Cardinality(H \ {c}) \in Nat /\ Cardinality(H) \in Nat
  BY FS_RemoveElement, FS_CardinalityType
<1> QED
  BY <1>1, FS_RemoveElement

\* A report that held a slot is through, and its slot goes on: to the head of the
\* queue, or to nobody.
LEMMA HandedOn ==
    ASSUME RendererInv, NEW c \in Calls, making[c] \in InSlot,
           Handed([making EXCEPT ![c] = "done"]),
           browsers' \subseteq browsers \ {c}, browsers' \subseteq Calls
    PROVE  /\ making' \in [Calls -> Stages] /\ renderQueue' \in Seq(Calls) /\ activeRenders' \in Nat
           /\ SlotsAccounted'
           /\ \A d \in Calls : making[d] = "none" => making'[d] = "none"
           /\ \A d \in browsers' : making'[d] = making[d]
<1> USE DEF RendererInv, RendererTypeOK
<1>1. c \in SlotHolders /\ IsFiniteSet(SlotHolders)
  BY HoldersFinite DEF SlotHolders
<1>2. Cardinality(SlotHolders \ {c}) = Cardinality(SlotHolders) - 1 /\ Cardinality(SlotHolders) \in Nat \ {0}
  BY <1>1, OneLess
<1>3. CASE renderQueue = <<>>
  <2>1. /\ activeRenders' = activeRenders - 1 /\ renderQueue' = renderQueue
        /\ making' = [making EXCEPT ![c] = "done"]
    BY <1>3 DEF Handed
  <2>2. SlotHolders' = SlotHolders \ {c}
    BY <2>1 DEF SlotHolders, InSlot
  <2>3. activeRenders' = Cardinality(SlotHolders') /\ activeRenders' <= MaxRenders /\ activeRenders' \in Nat
    BY <1>2, <2>1, <2>2, RendererAssumption DEF SlotsAccounted
  <2>4. browsers' \subseteq SlotHolders'
    BY <2>2 DEF SlotsAccounted
  <2>5. Waiting' = {d \in Calls : making'[d] = "queued"}
    BY <2>1 DEF SlotsAccounted, Waiting, InSlot
  <2>6. making' \in [Calls -> Stages]
    BY <2>1 DEF Stages
  <2>7. \A d \in browsers' : making'[d] = making[d]
    BY <2>1
  <2> QED
    BY <1>3, <2>1, <2>3, <2>4, <2>5, <2>6, <2>7 DEF SlotsAccounted, InSlot
<1>4. CASE renderQueue # <<>>
  <2> DEFINE h == Head(renderQueue)
  <2>1. /\ activeRenders' = activeRenders /\ renderQueue' = Tail(renderQueue)
        /\ making' = [[making EXCEPT ![c] = "done"] EXCEPT ![h] = "launch"]
    BY <1>4 DEF Handed
  <2>2. /\ h \in Waiting /\ renderQueue' \in Seq(Calls) /\ Waiting' = Waiting \ {h}
        /\ \A i, j \in 1..Len(renderQueue') : renderQueue'[i] = renderQueue'[j] => i = j
    <3>1. Waiting' = {Tail(renderQueue)[i] : i \in 1..Len(Tail(renderQueue))}
      BY <2>1 DEF Waiting
    <3>2. \A i, j \in 1..Len(renderQueue) : renderQueue[i] = renderQueue[j] => i = j
      BY DEF SlotsAccounted
    <3>3. /\ h \in Waiting /\ Tail(renderQueue) \in Seq(Calls)
          /\ {Tail(renderQueue)[i] : i \in 1..Len(Tail(renderQueue))} = Waiting \ {h}
          /\ \A i, j \in 1..Len(Tail(renderQueue)) :
                Tail(renderQueue)[i] = Tail(renderQueue)[j] => i = j
      BY <1>4, <3>2, Left DEF Waiting
    <3> QED
      BY <2>1, <3>1, <3>3
  <2>3. h \in Calls /\ making[h] = "queued" /\ h # c
    BY <2>2 DEF SlotsAccounted, InSlot
  <2> HIDE DEF h
  <2>4. SlotHolders' = (SlotHolders \ {c}) \cup {h}
    BY <2>1, <2>3 DEF SlotHolders, InSlot
  <2>5. h \notin SlotHolders \ {c} /\ IsFiniteSet(SlotHolders \ {c})
    BY <1>1, <2>3, FS_RemoveElement DEF SlotHolders, InSlot
  <2>6. Cardinality(SlotHolders') = Cardinality(SlotHolders)
    <3>1. Cardinality((SlotHolders \ {c}) \cup {h}) = Cardinality(SlotHolders \ {c}) + 1
      BY <2>5, OneMore
    <3> QED
      BY <1>2, <2>4, <3>1
  <2>7. browsers' \subseteq SlotHolders'
    BY <2>4 DEF SlotsAccounted
  <2>8. Waiting' = {d \in Calls : making'[d] = "queued"}
    BY <2>1, <2>2, <2>3 DEF SlotsAccounted, InSlot
  <2>9. making' \in [Calls -> Stages]
    BY <2>1 DEF Stages, InSlot
  <2>10. activeRenders' = MaxRenders
    BY <1>4, <2>1 DEF SlotsAccounted
  <2>11. \A d \in browsers' : making'[d] = making[d]
    <3>1. h \notin browsers
      BY <2>3 DEF SlotsAccounted, SlotHolders, InSlot
    <3> QED
      BY <2>1, <3>1
  <2> QED
    BY <2>1, <2>2, <2>3, <2>6, <2>7, <2>8, <2>9, <2>10, <2>11, RendererAssumption DEF SlotsAccounted, InSlot
<1> QED
  BY <1>3, <1>4

-----------------------------------------------------------------------------
(* The steps                                                               *)

LEMMA RendererInitInv == RendererInit => RendererInv
<1> SUFFICES ASSUME RendererInit PROVE RendererInv
  OBVIOUS
<1>1. RendererTypeOK
  BY DEF RendererInit, RendererTypeOK, Stages, Answers, Askers
<1>2. SlotHolders = {} /\ Waiting = {}
  BY DEF RendererInit, SlotHolders, InSlot, Waiting
<1>3. SlotsAccounted
  BY <1>2, FS_EmptySet, RendererAssumption DEF RendererInit, SlotsAccounted
<1> QED
  BY <1>1, <1>3 DEF RendererInit, RendererInv, AskedFirst, PastLaunch

\* Who has a slot, and who waits, stays as it is.
LEMMA SlotsStand ==
    ASSUME RendererInv, making' \in [Calls -> Stages], UNCHANGED <<activeRenders, renderQueue>>,
           \A c \in Calls : /\ making[c] \in InSlot <=> making'[c] \in InSlot
                            /\ making[c] = "queued" <=> making'[c] = "queued",
           browsers' \subseteq SlotHolders
    PROVE  SlotsAccounted'
<1>1. SlotHolders' = SlotHolders /\ Waiting' = Waiting
  BY DEF SlotHolders, Waiting
<1> QED
  BY <1>1 DEF RendererInv, SlotsAccounted

LEMMA AcquireStep ==
    ASSUME RendererInv, NEW c \in Calls, Acquire(c)
    PROVE  RendererInv'
<1> USE DEF RendererInv
<1>1. making[c] = "none" /\ c \notin SlotHolders /\ IsFiniteSet(SlotHolders)
  BY HoldersFinite DEF Acquire, AskedFirst, SlotHolders, InSlot
<1>2. asker' \in [Calls -> Askers] /\ UNCHANGED <<browsers, answer, downloads>>
      /\ asker' = [asker EXCEPT ![c] = "waiting"]
  BY DEF Acquire, RendererTypeOK, Askers
<1>3. CASE activeRenders < MaxRenders
  <2>1. /\ activeRenders' = activeRenders + 1 /\ renderQueue' = renderQueue
        /\ making' = [making EXCEPT ![c] = "launch"]
    BY <1>3 DEF Acquire
  <2>2. SlotHolders' = SlotHolders \cup {c}
    BY <2>1 DEF SlotHolders, InSlot, RendererTypeOK
  <2>3. activeRenders' = Cardinality(SlotHolders') /\ activeRenders' <= MaxRenders
    BY <1>1, <1>3, <2>1, <2>2, OneMore, RendererAssumption DEF SlotsAccounted, RendererTypeOK
  <2>4. renderQueue = <<>>
    BY <1>3, RendererAssumption DEF SlotsAccounted, RendererTypeOK
  <2>5. Waiting' = {d \in Calls : making'[d] = "queued"}
    BY <1>1, <2>1 DEF SlotsAccounted, Waiting, RendererTypeOK
  <2>6. browsers' \subseteq SlotHolders'
    BY <1>2, <2>2 DEF SlotsAccounted
  <2>7. making' \in [Calls -> Stages] /\ activeRenders' \in Nat
    BY <2>1 DEF RendererTypeOK, Stages, InSlot
  <2>8. SlotsAccounted'
    BY <2>1, <2>3, <2>4, <2>5, <2>6 DEF SlotsAccounted
  <2>9. AskedFirst' /\ PastLaunch'
    BY <1>1, <1>2, <2>1 DEF AskedFirst, PastLaunch, SlotsAccounted, SlotHolders, RendererTypeOK
  <2> QED
    BY <1>2, <2>1, <2>7, <2>8, <2>9 DEF RendererTypeOK
<1>4. CASE ~(activeRenders < MaxRenders)
  <2>1. /\ renderQueue' = Append(renderQueue, c) /\ activeRenders' = activeRenders
        /\ making' = [making EXCEPT ![c] = "queued"]
    BY <1>4 DEF Acquire
  <2>2. c \notin Waiting
    BY <1>1 DEF SlotsAccounted
  <2>3. /\ renderQueue' \in Seq(Calls) /\ Waiting' = Waiting \cup {c}
        /\ \A i, j \in 1..Len(renderQueue') : renderQueue'[i] = renderQueue'[j] => i = j
    <3> DEFINE q == Append(renderQueue, c)
    <3>1. renderQueue \in Seq(Calls) /\ \A i, j \in 1..Len(renderQueue) : renderQueue[i] = renderQueue[j] => i = j
      BY DEF SlotsAccounted, RendererTypeOK
    <3>2. c \notin {renderQueue[i] : i \in 1..Len(renderQueue)}
      BY <2>2 DEF Waiting
    <3>3. /\ q \in Seq(Calls) /\ {q[i] : i \in 1..Len(q)} = {renderQueue[i] : i \in 1..Len(renderQueue)} \cup {c}
          /\ \A i, j \in 1..Len(q) : q[i] = q[j] => i = j
      BY <3>1, <3>2, Joined
    <3>4. renderQueue' = q
      BY <2>1
    <3> HIDE DEF q
    <3> QED
      BY <3>3, <3>4 DEF Waiting
  <2>4. SlotHolders' = SlotHolders
    BY <1>1, <2>1 DEF SlotHolders, InSlot, RendererTypeOK
  <2>5. Waiting' = {d \in Calls : making'[d] = "queued"}
    BY <2>1, <2>3 DEF SlotsAccounted, RendererTypeOK
  <2>6. activeRenders' = MaxRenders
    BY <1>4, <2>1, RendererAssumption DEF SlotsAccounted, RendererTypeOK
  <2>7. SlotsAccounted'
    BY <1>2, <2>1, <2>3, <2>4, <2>5, <2>6, RendererAssumption DEF SlotsAccounted
  <2>8. making' \in [Calls -> Stages]
    BY <2>1 DEF RendererTypeOK, Stages
  <2>9. AskedFirst' /\ PastLaunch'
    BY <1>1, <1>2, <2>1 DEF AskedFirst, PastLaunch, SlotsAccounted, SlotHolders, RendererTypeOK
  <2> QED
    BY <1>2, <2>1, <2>3, <2>7, <2>8, <2>9 DEF RendererTypeOK
<1> QED
  BY <1>3, <1>4

\* A step that ends a report and passes its slot on.
LEMMA ReleaseStep ==
    ASSUME RendererInv, NEW c \in Calls, LaunchFails(c) \/ BrowserClosed(c)
    PROVE  RendererInv'
<1> USE DEF RendererInv, RendererTypeOK
<1>1. making[c] \in InSlot /\ Handed([making EXCEPT ![c] = "done"])
  BY DEF LaunchFails, BrowserClosed, Release, InSlot
<1>2. browsers' \subseteq browsers \ {c} /\ browsers' \subseteq Calls
  <2>1. CASE BrowserClosed(c)
    BY <2>1 DEF BrowserClosed
  <2>2. CASE LaunchFails(c)
    <3>1. browsers' = browsers /\ making[c] = "launch"
      BY <2>2 DEF LaunchFails
    <3> QED
      BY <3>1 DEF PastLaunch
  <2> QED
    BY <2>1, <2>2
<1>3. /\ making' \in [Calls -> Stages] /\ renderQueue' \in Seq(Calls) /\ activeRenders' \in Nat
      /\ SlotsAccounted'
      /\ \A d \in Calls : making[d] = "none" => making'[d] = "none"
      /\ \A d \in browsers' : making'[d] = making[d]
  BY <1>1, <1>2, HandedOn
<1>4. answer' \in [Calls -> Answers] /\ asker' = asker /\ downloads' = downloads
  BY DEF LaunchFails, BrowserClosed, Answered, Answers
<1> QED
  BY <1>2, <1>3, <1>4 DEF AskedFirst, PastLaunch

\* A report moves on in its browser.
LEMMA BrowserStep ==
    ASSUME RendererInv, NEW c \in Calls, Launched(c) \/ Printed(c)
    PROVE  RendererInv'
<1> USE DEF RendererInv
<1>1. PICK s \in {"print", "close"} : making' = [making EXCEPT ![c] = s]
  BY DEF Launched, Printed
<1>2. making[c] \in InSlot /\ c \in SlotHolders
  BY DEF Launched, Printed, InSlot, SlotHolders
<1>3. UNCHANGED <<activeRenders, renderQueue, answer, asker, downloads>>
  BY DEF Launched, Printed
<1>4. browsers' \subseteq browsers \cup {c}
  BY DEF Launched, Printed
<1>5. making' \in [Calls -> Stages]
  BY <1>1 DEF RendererTypeOK, Stages, InSlot
<1>6. \A d \in Calls : /\ making[d] \in InSlot <=> making'[d] \in InSlot
                       /\ making[d] = "queued" <=> making'[d] = "queued"
  BY <1>1, <1>2 DEF RendererTypeOK, InSlot
<1>7. browsers' \subseteq SlotHolders
  BY <1>2, <1>4 DEF SlotsAccounted
<1>8. SlotsAccounted'
  BY <1>3, <1>5, <1>6, <1>7, SlotsStand
<1>9. AskedFirst' /\ PastLaunch'
  BY <1>1, <1>2, <1>3, <1>4 DEF AskedFirst, PastLaunch, RendererTypeOK, InSlot
<1> QED
  BY <1>3, <1>4, <1>5, <1>8, <1>9 DEF RendererTypeOK

\* A step of the one who asks, or an answer that is late, leaves the slots alone.
LEMMA OutsideStep ==
    ASSUME RendererInv, UNCHANGED <<making, activeRenders, renderQueue, browsers>>,
           answer' \in [Calls -> Answers], asker' \in [Calls -> Askers], downloads' \subseteq Calls,
           \A c \in Calls : asker'[c] = "idle" => asker[c] = "idle"
    PROVE  RendererInv'
<1>1. SlotHolders' = SlotHolders /\ Waiting' = Waiting
  BY DEF SlotHolders, Waiting
<1> QED
  BY <1>1 DEF RendererInv, RendererTypeOK, SlotsAccounted, AskedFirst, PastLaunch

LEMMA RestartStep ==
    ASSUME RendererInv, Restart
    PROVE  RendererInv'
<1> USE DEF RendererInv, RendererTypeOK
<1>1. /\ making' = [c \in Calls |-> IF making[c] = "none" THEN "none" ELSE "done"]
      /\ activeRenders' = 0 /\ renderQueue' = <<>> /\ browsers' = {}
      /\ asker' = asker /\ downloads' = downloads
  BY DEF Restart
<1>2. SlotHolders' = {} /\ Waiting' = {}
  BY <1>1 DEF SlotHolders, Waiting, InSlot
<1>3. \A c \in Calls : making'[c] # "queued"
  BY <1>1
<1>4. SlotsAccounted'
  BY <1>1, <1>2, <1>3, FS_EmptySet, RendererAssumption DEF SlotsAccounted
<1>5. making' \in [Calls -> Stages] /\ answer' \in [Calls -> Answers]
  BY <1>1 DEF Restart, Stages, Answers
<1> QED
  BY <1>1, <1>4, <1>5 DEF AskedFirst, PastLaunch

LEMMA RendererStep == RendererInv /\ [RendererNext]_rendererVars => RendererInv'
<1> SUFFICES ASSUME RendererInv, [RendererNext]_rendererVars PROVE RendererInv'
  OBVIOUS
<1>1. ASSUME NEW c \in Calls, Acquire(c) PROVE RendererInv'
  BY <1>1, AcquireStep
<1>2. ASSUME NEW c \in Calls, LaunchFails(c) \/ BrowserClosed(c) PROVE RendererInv'
  BY <1>2, ReleaseStep
<1>3. ASSUME NEW c \in Calls, Launched(c) \/ Printed(c) PROVE RendererInv'
  BY <1>3, BrowserStep
<1>4. ASSUME NEW c \in Calls, Refuse(c) \/ TakeAnswer(c) \/ RecordDownload(c) \/ TooLate(c)
      PROVE RendererInv'
  <2>1. UNCHANGED <<making, activeRenders, renderQueue, browsers>>
    BY <1>4 DEF Refuse, TakeAnswer, RecordDownload, TooLate
  <2>2. answer' \in [Calls -> Answers]
    BY <1>4 DEF RendererInv, RendererTypeOK, Refuse, TakeAnswer, RecordDownload, TooLate, Answered, Answers
  <2>3. /\ asker' \in [Calls -> Askers] /\ downloads' \subseteq Calls
        /\ \A d \in Calls : asker'[d] = "idle" => asker[d] = "idle"
    BY <1>4 DEF RendererInv, RendererTypeOK, Refuse, TakeAnswer, RecordDownload, TooLate, Askers
  <2> QED
    BY <2>1, <2>2, <2>3, OutsideStep
<1>5. CASE Restart
  BY <1>5, RestartStep
<1>6. CASE UNCHANGED rendererVars
  BY <1>6, OutsideStep DEF rendererVars, RendererInv, RendererTypeOK
<1> QED
  BY <1>1, <1>2, <1>3, <1>4, <1>5, <1>6 DEF RendererNext

-----------------------------------------------------------------------------
\* No slot is lost and none is made, whatever the requests do, fail or wait for,
\* for any bound and any number of requests.
THEOREM SlotsAreAccounted == RendererSpec => []SlotsAccounted
<1>1. RendererInv => SlotsAccounted
  BY DEF RendererInv
<1> QED
  BY RendererInitInv, RendererStep, <1>1, PTL DEF RendererSpec

-----------------------------------------------------------------------------
(***************************************************************************)
(* Costs: AgentCostDetermined for any rates, agents and runs.              *)
(***************************************************************************)

\* A costed run's rate was among the latest of its party in what its query saw.
CostFound(r) ==
    costing[r].phase = "costed" =>
        /\ costing[r].rate \in RateIds
        /\ snapshot[r][costing[r].rate] # NoRate
        /\ snapshot[r][costing[r].rate].agent \in {costing[r].agent, Global}
        /\ costing[r].rate \in Latest(snapshot[r], snapshot[r][costing[r].rate].agent, costing[r].asOf)

RateInv ==
    /\ RateTypeOK
    /\ Unique(rates) /\ \A r \in CostedRuns : Unique(snapshot[r]) /\ CostFound(r)

LEMMA RateInitially == RateInit => RateInv
  BY RateAssumption DEF RateInit, RateInv, RateTypeOK, Dates, Table, Lookup, Unique, CostFound

\* The lookup record keeps its type under the two kinds of change to it.
LEMMA LookupSteps ==
    ASSUME NEW l \in Lookup, NEW ph \in {"none", "agent", "global", "costed", "uncosted"},
           NEW d \in Dates, NEW i \in RateIds \cup {NoRate}
    PROVE  /\ [l EXCEPT !.phase = ph] \in Lookup
           /\ [l EXCEPT !.phase = ph, !.asOf = d] \in Lookup
           /\ [l EXCEPT !.phase = ph, !.rate = i] \in Lookup
  BY DEF Lookup

\* A query stores what it saw, and if it found a rate, one of the latest.
LEMMA FoundKeeps ==
    ASSUME RateInv, NEW r \in CostedRuns, NEW party, NEW otherwise \in {"global", "uncosted"},
           party \in {costing[r].agent, Global},
           Found(r, Latest(rates, party, costing[r].asOf), otherwise)
    PROVE  RateInv'
<1> DEFINE latest == Latest(rates, party, costing[r].asOf)
<1>1. /\ costing \in [CostedRuns -> Lookup] /\ costing[r] \in Lookup
      /\ snapshot \in [CostedRuns -> Table] /\ rates \in Table
      /\ today \in Dates /\ rateCalls \in 0..MaxRateCalls
  BY DEF RateInv, RateTypeOK
<1>2. /\ snapshot' = [snapshot EXCEPT ![r] = rates]
      /\ UNCHANGED <<today, rates, rateCalls>>
  BY DEF Found
<1>3. \A o \in CostedRuns : snapshot'[o] = IF o = r THEN rates ELSE snapshot[o]
  BY <1>1, <1>2
<1>4. snapshot' \in [CostedRuns -> Table]
  BY <1>1, <1>2
<1>5. Unique(rates)' /\ \A o \in CostedRuns : Unique(snapshot'[o])
  BY <1>2, <1>3 DEF RateInv, Unique
<1>6. ASSUME NEW i \in latest, costing' = [costing EXCEPT ![r].phase = "costed", ![r].rate = i]
      PROVE  RateInv'
  <2>1. i \in RateIds /\ rates[i] # NoRate /\ rates[i].agent = party
    BY DEF Latest, InEffect
  <2>2. costing' \in [CostedRuns -> Lookup]
    <3>1. costing' = [costing EXCEPT ![r] = [costing[r] EXCEPT !.phase = "costed", !.rate = i]]
      BY <1>1, <1>6 DEF Lookup
    <3>2. [costing[r] EXCEPT !.phase = "costed", !.rate = i] \in Lookup
      BY <1>1, <2>1, LookupSteps
    <3>3. QED
      BY <1>1, <3>1, <3>2
  <2>3. /\ \A o \in CostedRuns : o # r => costing'[o] = costing[o]
        /\ costing'[r].rate = i /\ costing'[r].agent = costing[r].agent /\ costing'[r].asOf = costing[r].asOf
    BY <1>1, <1>6 DEF Lookup
  <2>4. ASSUME NEW o \in CostedRuns PROVE CostFound(o)'
    <3>1. CASE o = r
      BY <3>1, <1>3, <2>1, <2>3 DEF CostFound
    <3>2. CASE o # r
      BY <3>2, <1>3, <2>3 DEF CostFound, RateInv
    <3>3. QED
      BY <3>1, <3>2
  <2>5. QED
    BY <1>1, <1>2, <1>4, <1>5, <2>2, <2>4 DEF RateInv, RateTypeOK
<1>7. ASSUME costing' = [costing EXCEPT ![r].phase = otherwise] PROVE RateInv'
  <2>1. costing' \in [CostedRuns -> Lookup]
    BY <1>1, <1>7, LookupSteps DEF Lookup
  <2>2. /\ \A o \in CostedRuns : o # r => costing'[o] = costing[o]
        /\ costing'[r].phase = otherwise
    BY <1>1, <1>7 DEF Lookup
  <2>3. ASSUME NEW o \in CostedRuns PROVE CostFound(o)'
    BY <1>3, <2>2 DEF CostFound, RateInv
  <2>4. QED
    BY <1>1, <1>2, <1>4, <1>5, <2>1, <2>3 DEF RateInv, RateTypeOK
<1>8. QED
  BY <1>6, <1>7 DEF Found

\* A change of the rates that the index lets through leaves what was looked up alone.
LEMMA ChangeKeeps ==
    ASSUME RateInv, NEW table \in Table, Unique(table), Change(table)
    PROVE  RateInv'
  BY RateAssumption DEF RateInv, RateTypeOK, Change, Unique, CostFound

LEMMA RateStep == RateInv /\ [RateNext]_rateVars => RateInv'
<1> SUFFICES ASSUME RateInv, [RateNext]_rateVars PROVE RateInv'
  OBVIOUS
<1>1. rates \in Table /\ Unique(rates)
  BY DEF RateInv, RateTypeOK
<1>2. ASSUME NEW i \in RateIds, DeleteRate(i) PROVE RateInv'
  <2>1. [rates EXCEPT ![i] = NoRate] \in Table /\ Unique([rates EXCEPT ![i] = NoRate])
    BY <1>1 DEF Table, Unique
  <2>2. QED
    BY <1>2, <2>1, ChangeKeeps DEF DeleteRate
<1>3. ASSUME NEW i \in RateIds, NEW rate \in Rate, PutRate(i, rate) PROVE RateInv'
  <2>1. [rates EXCEPT ![i] = rate] \in Table
    BY <1>1 DEF Table
  <2>2. QED
    BY <1>3, <2>1, ChangeKeeps DEF PutRate
<1>4. ASSUME NEW r \in CostedRuns, BeginCost(r) PROVE RateInv'
  <2>1. /\ costing \in [CostedRuns -> Lookup] /\ costing[r] \in Lookup
        /\ costing' = [costing EXCEPT ![r].phase = "agent", ![r].asOf = today] /\ today \in Dates
    BY <1>4 DEF RateInv, RateTypeOK, BeginCost
  <2>2. costing' \in [CostedRuns -> Lookup]
    <3>1. costing' = [costing EXCEPT ![r] = [costing[r] EXCEPT !.phase = "agent", !.asOf = today]]
      BY <2>1 DEF Lookup
    <3>2. [costing[r] EXCEPT !.phase = "agent", !.asOf = today] \in Lookup
      BY <2>1, LookupSteps
    <3>3. QED
      BY <2>1, <3>1, <3>2
  <2>3. costing'[r].phase = "agent" /\ \A o \in CostedRuns : o # r => costing'[o] = costing[o]
    BY <2>1 DEF Lookup
  <2>4. QED
    BY <1>4, <2>2, <2>3 DEF RateInv, RateTypeOK, BeginCost, CostFound, Unique
<1>5. ASSUME NEW r \in CostedRuns, QueryAgentRate(r) PROVE RateInv'
  BY <1>5, FoundKeeps DEF QueryAgentRate
<1>6. ASSUME NEW r \in CostedRuns, QueryGlobalRate(r) PROVE RateInv'
  BY <1>6, FoundKeeps DEF QueryGlobalRate
<1>7. CASE DayPasses
  BY <1>7, RateAssumption DEF RateInv, RateTypeOK, DayPasses, Dates, CostFound, Unique
<1>8. CASE UNCHANGED rateVars
  BY <1>8 DEF RateInv, RateTypeOK, rateVars, CostFound, Unique
<1>9. QED
  BY <1>2, <1>3, <1>4, <1>5, <1>6, <1>7, <1>8 DEF RateNext

\* Two of the latest rates of an agent would be equal in whose and from when they are,
\* which the index excludes.
LEMMA LatestIsOne ==
    ASSUME NEW table \in Table, Unique(table), NEW party, party # Global, NEW asOf \in Dates,
           NEW i \in Latest(table, party, asOf), NEW k \in Latest(table, party, asOf)
    PROVE  i = k
<1>1. /\ i \in RateIds /\ k \in RateIds /\ table[i] # NoRate /\ table[k] # NoRate
      /\ table[i].agent = party /\ table[k].agent = party
      /\ table[i].from <= table[k].from /\ table[k].from <= table[i].from
  BY DEF Latest, InEffect
<1>2. table[i] \in Rate /\ table[k] \in Rate
  BY <1>1 DEF Table
<1>3. table[i].from \in Nat /\ table[k].from \in Nat
  BY <1>2, RateAssumption DEF Rate, Dates
<1>4. table[i].from = table[k].from
  BY <1>1, <1>3
<1>5. table[i] = table[k]
  BY <1>1, <1>2, <1>4 DEF Rate
<1>6. QED
  BY <1>1, <1>5 DEF Unique

\* A run costed by a rate of its own agent could have been costed by no other, however
\* the rates were put, moved and deleted around its two queries.
THEOREM CostIsDetermined == RateSpec => []AgentCostDetermined
<1>1. RateInv => AgentCostDetermined
  <2> SUFFICES ASSUME RateInv, NEW r \in CostedRuns, costing[r].phase = "costed",
                      snapshot[r][costing[r].rate].agent # Global
               PROVE  Alternatives(r) = {costing[r].rate}
    BY DEF AgentCostDetermined
  <2> DEFINE party == snapshot[r][costing[r].rate].agent
  <2>1. /\ costing[r].rate \in Latest(snapshot[r], party, costing[r].asOf)
        /\ snapshot[r] \in Table /\ Unique(snapshot[r]) /\ costing[r].asOf \in Dates
    BY DEF RateInv, RateTypeOK, CostFound, Lookup
  <2>2. \A k \in Latest(snapshot[r], party, costing[r].asOf) : k = costing[r].rate
    BY <2>1, LatestIsOne
  <2>3. QED
    BY <2>1, <2>2 DEF Alternatives
<1>2. QED
  BY RateInitially, RateStep, <1>1, PTL DEF RateSpec

-----------------------------------------------------------------------------
(***************************************************************************)
(* Delivery: DeliveredAsRecorded for any destinations, requests and        *)
(* bounds. A delivery under way knows what it lost and what was accepted;  *)
(* what it records stays true.                                             *)
(***************************************************************************)

\* How a delivery and its audit event fit: while it posts, what was accepted is
\* what was lost; what it is to record is so; and what is recorded stays true.
TaskFits(t, written) ==
    /\ t \in Task /\ written \in Results
    /\ t.op \in {"none", "post", "record"} => written = "none"
    /\ t.op = "none" => t.got = 0
    /\ t.op = "post" => t.got = t.lost /\ t.lost <= t.posts /\ t.posts < MaxAttempts
    /\ t.op = "record" => /\ t.result = "SUCCESS" => t.got = t.lost + 1
                          /\ t.result = "FAILURE" => t.got = t.lost
                          /\ t.result # "none"
    /\ t.got <= t.lost + 1
    /\ written = "SUCCESS" => t.got > 0
    /\ written = "FAILURE" => t.got = t.lost

MailFits(m, written) ==
    /\ m \in [op : MailOps, sent : BOOLEAN] /\ written \in Results
    /\ m.op # "done" => written = "none"
    /\ m.op = "record" => m.sent
    /\ written = "SUCCESS" => m.sent

DeliveryInv ==
    /\ task \in [Dests -> Task] /\ trail \in [Dests \cup {"mail"} -> Results]
    /\ \A d \in Dests : TaskFits(task[d], trail[d])
    /\ outcome = NoOutcome => \A d \in Dests : TaskAt(d, "none")
    /\ MailFits(mail, trail["mail"])

LEMMA DeliveryInitially == DeliveryInit => DeliveryInv
<1> SUFFICES ASSUME DeliveryInit PROVE DeliveryInv
  OBVIOUS
<1>1. NoTask \in Task /\ NoTask.op = "none" /\ NoTask.got = 0 /\ NoTask.lost = 0
  BY DeliveryAssumption DEF NoTask, Task, TaskOps, Results
<1>2. /\ task = [d \in Dests |-> NoTask] /\ trail = [w \in Dests \cup {"mail"} |-> "none"]
      /\ mail = [op |-> "none", sent |-> FALSE]
  BY DEF DeliveryInit
<1>3. \A d \in Dests : task[d] = NoTask /\ trail[d] = "none"
  BY <1>2
<1>4. \A d \in Dests : TaskFits(task[d], trail[d])
  <2>1. TaskFits(NoTask, "none")
    BY <1>1 DEF TaskFits, Results
  <2>2. QED
    BY <1>3, <2>1
<1>5. MailFits(mail, trail["mail"])
  BY <1>2 DEF MailFits, MailOps, Results
<1>6. QED
  BY <1>1, <1>2, <1>3, <1>4, <1>5 DEF DeliveryInv, TaskAt, Results

\* What follows a failure that may pass: another post, or the record of a failure.
LEMMA FailureFits ==
    ASSUME NEW t \in Task, t.op = "post", t.got = t.lost, t.lost <= t.posts
    PROVE  TaskFits(AfterFailure(t), "none")
<1>1. CASE t.posts < MaxAttempts
  BY <1>1 DEF AfterFailure, TaskFits, Task, Results
<1>2. CASE ~(t.posts < MaxAttempts)
  <2> DEFINE f == [t EXCEPT !.op = "record", !.result = "FAILURE"]
  <2>1. f \in Task /\ f.op = "record" /\ f.result = "FAILURE" /\ f.got = t.got /\ f.lost = t.lost
    BY DEF Task, TaskOps, Results
  <2>2. t.lost \in Nat
    BY DeliveryAssumption DEF Task
  <2> HIDE DEF f
  <2>3. TaskFits(f, "none")
    BY <2>1, <2>2 DEF TaskFits, Results
  <2>4. QED
    BY <1>2, <2>3 DEF AfterFailure, f
<1>3. QED
  BY <1>1, <1>2

\* One more post: the destination accepts it and answers, accepts it and the answer
\* is lost, does not get it, or refuses it.
LEMMA PostFits ==
    ASSUME NEW t, TaskFits(t, "none"), t.op = "post"
    PROVE  LET n == [t EXCEPT !.posts = @ + 1] IN
           /\ TaskFits([n EXCEPT !.got = @ + 1, !.op = "record", !.result = "SUCCESS"], "none")
           /\ TaskFits(AfterFailure([n EXCEPT !.got = @ + 1, !.lost = @ + 1]), "none")
           /\ TaskFits(AfterFailure(n), "none")
           /\ TaskFits([n EXCEPT !.op = "record", !.result = "FAILURE"], "none")
<1> USE DeliveryAssumption DEF TaskFits, Task, TaskOps, Results
<1> DEFINE n == [t EXCEPT !.posts = @ + 1]
<1>1. /\ n \in Task /\ n.op = "post" /\ n.posts = t.posts + 1 /\ n.got = t.got /\ n.lost = t.lost
      /\ n.posts <= MaxAttempts /\ n.lost < n.posts /\ n.got = n.lost
  OBVIOUS
<1> HIDE DEF n
<1>m. n.got \in Nat /\ n.lost \in Nat /\ n.got + 1 \in 0..MaxAttempts /\ n.lost + 1 \in 0..MaxAttempts
  BY <1>1
<1>2. TaskFits([n EXCEPT !.got = @ + 1, !.op = "record", !.result = "SUCCESS"], "none")
  <2> DEFINE g == [n EXCEPT !.got = @ + 1, !.op = "record", !.result = "SUCCESS"]
  <2>1. /\ g \in Task /\ g.op = "record" /\ g.result = "SUCCESS" /\ g.got = n.got + 1 /\ g.lost = n.lost
    BY <1>1, <1>m
  <2> HIDE DEF g
  <2>2. TaskFits(g, "none")
    BY <1>1, <1>m, <2>1
  <2>3. QED
    BY <2>2 DEF g
<1>3. TaskFits([n EXCEPT !.op = "record", !.result = "FAILURE"], "none")
  BY <1>1
<1>4. TaskFits(AfterFailure(n), "none")
  BY <1>1, <1>m, FailureFits
<1>5. TaskFits(AfterFailure([n EXCEPT !.got = @ + 1, !.lost = @ + 1]), "none")
  <2> DEFINE g == [n EXCEPT !.got = @ + 1, !.lost = @ + 1]
  <2>1. g \in Task /\ g.op = "post" /\ g.posts = n.posts /\ g.got = n.got + 1 /\ g.lost = n.lost + 1
    BY <1>1, <1>m
  <2>2. g.got = g.lost /\ g.lost <= g.posts
    BY <1>1, <1>m, <2>1
  <2> HIDE DEF g
  <2>3. TaskFits(AfterFailure(g), "none")
    BY <2>1, <2>2, FailureFits
  <2>4. QED
    BY <2>3 DEF g
<1>6. QED
  BY <1>2, <1>3, <1>4, <1>5 DEF n

\* The event is written, or is not and the delivery throws; or the worker dies.
LEMMA RecordFits ==
    ASSUME NEW t, NEW written, TaskFits(t, written), t.op # "none"
    PROVE  /\ TaskFits([t EXCEPT !.op = "done"], written)
           /\ TaskFits([t EXCEPT !.op = "threw"], written)
           /\ t.op = "record" => TaskFits([t EXCEPT !.op = "done"], t.result)
  BY DEF TaskFits, Task, TaskOps, Results

\* A step of one delivery, with or without its event, keeps the invariant.
LEMMA SetTaskKeeps ==
    ASSUME DeliveryInv, NEW d \in Dests, ~TaskAt(d, "none"), NEW t, SetTask(d, t), TaskFits(t, trail'[d]),
           NEW recorded \in Results, trail' = trail \/ trail' = [trail EXCEPT ![d] = recorded]
    PROVE  DeliveryInv'
<1>1. t \in Task
  BY DEF TaskFits
<1>2. task' = [task EXCEPT ![d] = t] /\ task \in [Dests -> Task] /\ UNCHANGED <<outcome, mail>>
  BY DEF SetTask, DeliveryInv
<1>3. trail' \in [Dests \cup {"mail"} -> Results] /\ \A w \in Dests \cup {"mail"} : w # d => trail'[w] = trail[w]
  BY DEF DeliveryInv
<1>4. d # "mail"
  BY DeliveryAssumption
<1>5. trail'["mail"] = trail["mail"]
  BY <1>3, <1>4
<1>6. outcome # NoOutcome
  BY DEF DeliveryInv
<1>7. \A o \in Dests : TaskFits(task'[o], trail'[o])
  BY <1>2, <1>3 DEF DeliveryInv
<1>8. QED
  BY <1>1, <1>2, <1>3, <1>5, <1>6, <1>7 DEF DeliveryInv

LEMMA SetMailKeeps ==
    ASSUME DeliveryInv, NEW m, SetMail(m), MailFits(m, trail'["mail"]),
           NEW recorded \in Results, trail' = trail \/ trail' = [trail EXCEPT !["mail"] = recorded]
    PROVE  DeliveryInv'
<1>1. UNCHANGED <<task, outcome>> /\ mail' = m
  BY DEF SetMail
<1>2. trail' \in [Dests \cup {"mail"} -> Results] /\ \A d \in Dests : trail'[d] = trail[d]
  BY DeliveryAssumption DEF DeliveryInv
<1>3. QED
  BY <1>1, <1>2 DEF DeliveryInv, TaskAt

\* Requests of the API meanwhile change no delivery: it read its rows at once.
LEMMA AdministerKeeps == DeliveryInv /\ Administer => DeliveryInv'
<1> SUFFICES ASSUME DeliveryInv, Administer PROVE DeliveryInv'
  OBVIOUS
<1>1. UNCHANGED RunVars
  BY DEF Administer, Relist, SeeLinks, ClearLinks, CreateLinks, BeginPut, BeginRelist, ListDest, Delist
<1>2. QED
  BY <1>1 DEF DeliveryInv, RunVars, TaskAt

LEMMA DeliverKeeps == DeliveryInv /\ Deliver => DeliveryInv'
<1> SUFFICES ASSUME DeliveryInv, Deliver PROVE DeliveryInv'
  OBVIOUS
<1>t. /\ task \in [Dests -> Task] /\ trail \in [Dests \cup {"mail"} -> Results]
      /\ \A d \in Dests : TaskFits(task[d], trail[d])
      /\ MailFits(mail, trail["mail"])
  BY DEF DeliveryInv
<1>p. ASSUME NEW d \in Dests, TaskAt(d, "post"), UNCHANGED trail, NEW t, SetTask(d, t), TaskFits(t, "none")
      PROVE  DeliveryInv'
  <2>1. trail'[d] = "none" /\ ~TaskAt(d, "none") /\ "none" \in Results
    BY <1>p, <1>t DEF TaskFits, TaskAt, Results
  <2>2. QED
    BY <1>p, <2>1, SetTaskKeeps
<1>f. ASSUME NEW d \in Dests, TaskAt(d, "post")
      PROVE  TaskFits(task[d], "none") /\ task[d].op = "post"
  BY <1>f, <1>t DEF TaskFits, TaskAt
<1>1. ASSUME NEW d \in Dests, Delivered(d) PROVE DeliveryInv'
  <2>1. TaskFits([Posted(d) EXCEPT !.got = @ + 1, !.op = "record", !.result = "SUCCESS"], "none")
    BY <1>1, <1>f, PostFits DEF Delivered, Posted
  <2>2. QED
    BY <1>1, <2>1, <1>p DEF Delivered
<1>2. ASSUME NEW d \in Dests, AnswerLost(d) PROVE DeliveryInv'
  <2>1. TaskFits(AfterFailure([Posted(d) EXCEPT !.got = @ + 1, !.lost = @ + 1]), "none")
    BY <1>2, <1>f, PostFits DEF AnswerLost, Posted
  <2>2. QED
    BY <1>2, <2>1, <1>p DEF AnswerLost
<1>3. ASSUME NEW d \in Dests, NotDelivered(d) PROVE DeliveryInv'
  <2>1. TaskFits(AfterFailure(Posted(d)), "none")
    BY <1>3, <1>f, PostFits DEF NotDelivered, Posted
  <2>2. QED
    BY <1>3, <2>1, <1>p DEF NotDelivered
<1>4. ASSUME NEW d \in Dests, Rejected(d) PROVE DeliveryInv'
  <2>1. TaskFits([Posted(d) EXCEPT !.op = "record", !.result = "FAILURE"], "none")
    BY <1>4, <1>f, PostFits DEF Rejected, Posted
  <2>2. QED
    BY <1>4, <2>1, <1>p DEF Rejected
<1>5. ASSUME NEW d \in Dests, RecordDelivery(d) PROVE DeliveryInv'
  <2>1. /\ task[d].op = "record" /\ ~TaskAt(d, "none") /\ task[d].op # "none" /\ task[d].result \in Results
        /\ TaskFits(task[d], trail[d]) /\ "none" \in Results
    BY <1>5, <1>t DEF RecordDelivery, TaskAt, Task, Results
  <2>2. /\ TaskFits([task[d] EXCEPT !.op = "threw"], trail[d])
        /\ TaskFits([task[d] EXCEPT !.op = "done"], task[d].result)
    BY <2>1, RecordFits
  <2>3. CASE /\ trail' = [trail EXCEPT ![d] = task[d].result]
             /\ SetTask(d, [task[d] EXCEPT !.op = "done"])
    <3>1. trail'[d] = task[d].result
      BY <2>3, <1>t
    <3>2. QED
      BY <2>1, <2>2, <2>3, <3>1, SetTaskKeeps
  <2>4. CASE UNCHANGED trail /\ SetTask(d, [task[d] EXCEPT !.op = "threw"])
    BY <2>1, <2>2, <2>4, SetTaskKeeps
  <2>5. QED
    BY <1>5, <2>3, <2>4 DEF RecordDelivery
<1>6. ASSUME NEW o \in Outcomes, RunEnds(o) PROVE DeliveryInv'
  <2>1. \A d \in Dests : task[d].op = "none" /\ trail'[d] = "none"
    BY <1>6, <1>t DEF RunEnds, DeliveryInv, TaskAt, TaskFits
  <2>2. /\ TaskFits(NoTask, "none") /\ NoTask \in Task
        /\ TaskFits([NoTask EXCEPT !.op = "post"], "none") /\ [NoTask EXCEPT !.op = "post"] \in Task
    BY DeliveryAssumption DEF TaskFits, NoTask, Task, TaskOps, Results
  <2>3. \A d \in Dests : task'[d] \in {NoTask, [NoTask EXCEPT !.op = "post"]}
    BY <1>6 DEF RunEnds
  <2>4. \A d \in Dests : TaskFits(task'[d], trail'[d])
    BY <2>1, <2>2, <2>3
  <2>5. task' \in [Dests -> Task] /\ UNCHANGED <<mail, trail>> /\ outcome' # NoOutcome
    BY <1>6, <2>2, DeliveryAssumption DEF RunEnds
  <2>6. QED
    BY <1>t, <2>4, <2>5 DEF DeliveryInv
<1>7. CASE BeginMail
  <2>1. MailFits([mail EXCEPT !.op = "send"], trail["mail"]) /\ "none" \in Results
    BY <1>7, <1>t DEF BeginMail, MailFits, MailOps, Results
  <2>2. QED
    BY <1>7, <2>1, SetMailKeeps DEF BeginMail
<1>8. CASE SendMail
  <2>1. /\ MailFits([op |-> "record", sent |-> TRUE], trail["mail"])
        /\ MailFits([mail EXCEPT !.op = "complain"], trail["mail"]) /\ "none" \in Results
    BY <1>8, <1>t DEF SendMail, MailFits, MailOps, Results
  <2>2. QED
    BY <1>8, <2>1, SetMailKeeps DEF SendMail
<1>9. CASE RecordMail
  <2> DEFINE recorded == IF mail.op = "record" THEN "SUCCESS" ELSE "FAILURE"
  <2>1. recorded \in Results /\ mail.op \in {"record", "complain"}
    BY <1>9 DEF Results, RecordMail
  <2>2. CASE trail' = [trail EXCEPT !["mail"] = recorded] /\ SetMail([mail EXCEPT !.op = "done"])
    <3>1. trail'["mail"] = recorded
      BY <2>2, <1>t
    <3>2. MailFits([mail EXCEPT !.op = "done"], trail'["mail"])
      BY <3>1, <2>1, <1>t DEF MailFits, MailOps, Results
    <3>3. QED
      BY <2>1, <2>2, <3>2, SetMailKeeps
  <2>3. CASE UNCHANGED trail /\ SetMail([mail EXCEPT !.op = IF mail.op = "record" THEN "complain" ELSE "done"])
    <3>1. MailFits([mail EXCEPT !.op = IF mail.op = "record" THEN "complain" ELSE "done"], trail'["mail"])
      BY <2>1, <2>3, <1>t DEF MailFits, MailOps, Results
    <3>2. QED
      BY <2>1, <2>3, <3>1, SetMailKeeps
  <2>4. QED
    BY <1>9, <2>2, <2>3 DEF RecordMail
<1>10. CASE LoseWorker
  <2>1. \A d \in Dests : task'[d] = IF TaskAt(d, "none") THEN task[d] ELSE [task[d] EXCEPT !.op = "done"]
    BY <1>10 DEF LoseWorker
  <2>2. ASSUME NEW d \in Dests PROVE TaskFits(task'[d], trail'[d])
    <3>1. CASE TaskAt(d, "none")
      BY <3>1, <2>1, <1>10, <1>t DEF LoseWorker
    <3>2. CASE ~TaskAt(d, "none")
      BY <3>2, <2>1, <1>10, <1>t, RecordFits DEF LoseWorker, TaskAt
    <3>3. QED
      BY <3>1, <3>2
  <2>3. \A d \in Dests : task'[d] \in Task
    BY <2>2 DEF TaskFits
  <2>4. task' \in [Dests -> Task] /\ UNCHANGED <<outcome, trail>> /\ outcome # NoOutcome
    BY <1>10, <2>1, <2>3 DEF LoseWorker
  <2>5. MailFits(mail', trail'["mail"])
    BY <1>10, <1>t DEF LoseWorker, MailFits, MailOps
  <2>6. QED
    BY <1>t, <2>2, <2>4, <2>5 DEF DeliveryInv
<1>11. QED
  BY <1>1, <1>2, <1>3, <1>4, <1>5, <1>6, <1>7, <1>8, <1>9, <1>10 DEF Deliver

LEMMA DeliveryStep == DeliveryInv /\ [DeliveryNext]_deliveryVars => DeliveryInv'
<1>1. DeliveryInv /\ UNCHANGED deliveryVars => DeliveryInv'
  BY DEF DeliveryInv, deliveryVars, TaskAt
<1>2. QED
  BY <1>1, AdministerKeeps, DeliverKeeps DEF DeliveryNext

-----------------------------------------------------------------------------
\* The types of the rows and requests, on which the deliveries do not depend.
RowsTypeOK ==
    /\ dests \in [Dests -> Dest] /\ links \subseteq Dests /\ clerk \in [Clerks -> Clerk]
    /\ orders \in 0..MaxOrders /\ outcome \in Outcomes \cup {NoOutcome}

LEMMA RowsAndTasks == DeliveryInv /\ RowsTypeOK => DeliveryTypeOK
  BY DEF DeliveryInv, RowsTypeOK, DeliveryTypeOK, MailFits

LEMMA MergeIsRow ==
    ASSUME NEW old \in Dest, NEW F, NEW new,
           "active" \in F => new.active \in BOOLEAN, "on" \in F => new.on \in SUBSET Outcomes
    PROVE  Merge(old, new, F) \in Dest
<1> DEFINE a == IF "active" \in F THEN new.active ELSE old.active
           o == IF "on" \in F THEN new.on ELSE old.on
<1>1. a \in BOOLEAN /\ o \in SUBSET Outcomes
  BY Zenon DEF Dest
<1>2. Merge(old, new, F) = [old EXCEPT !.active = a, !.on = o]
  BY DEF Merge
<1> HIDE DEF a, o
<1>3. QED
  BY <1>1, <1>2 DEF Dest

LEMMA NoClerkIsClerk == NoClerk \in Clerk
  BY DEF NoClerk, Clerk, ClerkOps, NoDest, Dest

LEMMA RowsStep == RowsTypeOK /\ [DeliveryNext]_deliveryVars => RowsTypeOK'
<1> SUFFICES ASSUME RowsTypeOK, [DeliveryNext]_deliveryVars PROVE RowsTypeOK'
  OBVIOUS
<1> USE DEF RowsTypeOK
<1>n. NoClerk \in Clerk
  BY NoClerkIsClerk
<1>s. ASSUME NEW k \in Clerks, NEW r \in Clerk, Serve(k, r) PROVE clerk' \in [Clerks -> Clerk] /\ orders' \in 0..MaxOrders
  BY <1>s, DeliveryAssumption DEF Serve
<1>r. ASSUME NEW k \in Clerks, Reply(k) PROVE clerk' \in [Clerks -> Clerk]
  BY <1>r, <1>n DEF Reply
<1>1. ASSUME NEW d \in Dests, ListDest(d) PROVE RowsTypeOK'
  <2>1. dests' \in [Dests -> Dest]
    <3>1. PICK on \in SUBSET Outcomes : dests' = [dests EXCEPT ![d] = [state |-> "live", active |-> TRUE, on |-> on]]
      BY <1>1 DEF ListDest
    <3>2. [state |-> "live", active |-> TRUE, on |-> on] \in Dest
      BY DEF Dest
    <3>3. QED
      BY <3>1, <3>2
  <2>2. QED
    BY <1>1, <2>1, DeliveryAssumption DEF ListDest, RunVars
<1>2. ASSUME NEW k \in Clerks, NEW d \in Dests, NEW F \in SUBSET Fields, NEW a \in BOOLEAN, NEW on \in SUBSET Outcomes,
             BeginRelist(k, d, [active |-> a, on |-> on], F)
      PROVE  RowsTypeOK'
  <2> DEFINE row == Merge(dests[d], [active |-> a, on |-> on], F)
  <2>1. row \in Dest
    BY MergeIsRow
  <2> HIDE DEF row
  <2>2. [NoClerk EXCEPT !.op = "patch", !.dest = d, !.row = row, !.fields = F] \in Clerk
    BY <1>n, <2>1 DEF Clerk, ClerkOps
  <2>3. Serve(k, [NoClerk EXCEPT !.op = "patch", !.dest = d, !.row = row, !.fields = F])
    BY <1>2 DEF BeginRelist, row
  <2>4. QED
    BY <1>2, <1>s, <2>2, <2>3 DEF BeginRelist, RunVars
<1>3. ASSUME NEW k \in Clerks, Relist(k) PROVE RowsTypeOK'
  <2> DEFINE c == clerk[k]
  <2>1. c \in Clerk /\ c.row \in Dest /\ c.row.active \in BOOLEAN /\ c.row.on \in SUBSET Outcomes
    BY DEF Clerk, Dest
  <2>2. CASE Listed(c.dest) /\ c.dest \in Dests
    <3>1. Merge(dests[c.dest], c.row, c.fields) \in Dest
      BY <2>1, <2>2, MergeIsRow
    <3>2. dests' = [dests EXCEPT ![c.dest] = Merge(dests[c.dest], c.row, c.fields)]
      BY <1>3, <2>2 DEF Relist
    <3>3. QED
      BY <1>3, <1>r, <3>1, <3>2 DEF Relist, RunVars
  <2>3. CASE ~Listed(c.dest)
    BY <1>3, <1>r, <2>3 DEF Relist, RunVars
  <2>4. CASE c.dest \notin Dests
    <3>1. \A row : [dests EXCEPT ![c.dest] = row] = dests
      BY <2>4
    <3>2. dests' = dests
      BY <1>3, <3>1 DEF Relist
    <3>3. QED
      BY <1>3, <1>r, <3>2 DEF Relist, RunVars
  <2>5. QED
    BY <2>2, <2>3, <2>4
<1>4. ASSUME NEW d \in Dests, Delist(d) PROVE RowsTypeOK'
  <2>1. dests[d] \in Dest /\ [dests[d] EXCEPT !.state = "deleted"] \in Dest
    BY DEF Dest
  <2>2. dests' = [dests EXCEPT ![d] = [dests[d] EXCEPT !.state = "deleted"]]
    BY <1>4 DEF Delist
  <2>3. dests' \in [Dests -> Dest]
    BY <2>1, <2>2
  <2>4. QED
    BY <1>4, <2>3 DEF Delist, RunVars
<1>5. ASSUME NEW k \in Clerks, NEW S \in SUBSET Dests, BeginPut(k, S) PROVE RowsTypeOK'
  <2>1. [NoClerk EXCEPT !.op = "put", !.want = S] \in Clerk
    BY <1>n DEF Clerk, ClerkOps
  <2>2. QED
    BY <1>5, <1>s, <2>1 DEF BeginPut, RunVars
<1>6. ASSUME NEW k \in Clerks, SeeLinks(k) \/ ClearLinks(k) PROVE RowsTypeOK'
  <2>1. clerk[k] \in Clerk /\ clerk[k].seen \subseteq Dests
    BY DEF Clerk
  <2>2. /\ [clerk[k] EXCEPT !.op = "clear", !.seen = links] \in Clerk
        /\ [clerk[k] EXCEPT !.op = "create", !.cleared = clerk[k].seen \cap links] \in Clerk
    BY <2>1 DEF Clerk, ClerkOps
  <2>3. \/ clerk' = [clerk EXCEPT ![k] = [clerk[k] EXCEPT !.op = "clear", !.seen = links]]
        \/ clerk' = [clerk EXCEPT ![k] = [clerk[k] EXCEPT !.op = "create", !.cleared = clerk[k].seen \cap links]]
    BY <1>6, <2>1 DEF SeeLinks, ClearLinks, Clerk
  <2>4. clerk' \in [Clerks -> Clerk]
    BY <2>2, <2>3
  <2>5. QED
    BY <1>6, <2>4 DEF SeeLinks, ClearLinks, RunVars
<1>7. ASSUME NEW k \in Clerks, CreateLinks(k) PROVE RowsTypeOK'
  <2>1. clerk[k].want \subseteq Dests
    BY DEF Clerk
  <2>2. QED
    BY <1>7, <1>r, <2>1 DEF CreateLinks, RunVars
<1>8. ASSUME NEW o \in Outcomes, RunEnds(o) PROVE RowsTypeOK'
  BY <1>8 DEF RunEnds
<1>9. ASSUME UNCHANGED <<dests, links, clerk, orders, outcome>> PROVE RowsTypeOK'
  BY <1>9
<1>10. CASE BeginMail \/ SendMail \/ RecordMail \/ LoseWorker
  BY <1>9, <1>10 DEF BeginMail, SendMail, RecordMail, LoseWorker, SetMail
<1>11. ASSUME NEW d \in Dests, Delivered(d) \/ AnswerLost(d) \/ NotDelivered(d) \/ Rejected(d) \/ RecordDelivery(d)
       PROVE  RowsTypeOK'
  BY <1>9, <1>11 DEF Delivered, AnswerLost, NotDelivered, Rejected, RecordDelivery, SetTask
<1>12. CASE UNCHANGED deliveryVars
  BY <1>9, <1>12 DEF deliveryVars
<1>13. QED
  BY <1>1, <1>2, <1>3, <1>4, <1>5, <1>6, <1>7, <1>8, <1>10, <1>11, <1>12 DEF DeliveryNext, Administer, Deliver

LEMMA RowsInitially == DeliveryInit => RowsTypeOK
<1> SUFFICES ASSUME DeliveryInit PROVE RowsTypeOK
  OBVIOUS
<1>1. NoDest \in Dest /\ [NoDest EXCEPT !.state = "live", !.active = TRUE, !.on = Outcomes] \in Dest
  BY DEF NoDest, Dest
<1>2. dests \in [Dests -> Dest] /\ links \subseteq Dests
  <2> HIDE DEF NoDest
  <2>1. QED
    BY <1>1 DEF DeliveryInit
<1>3. 0 \in 0..MaxOrders
  BY DeliveryAssumption
<1>4. QED
  BY <1>2, <1>3, NoClerkIsClerk DEF DeliveryInit, RowsTypeOK

\* The audit trail tells what happened to the run's result, whatever was lost, refused
\* or died on the way and however the rows of the destinations changed meanwhile.
THEOREM TrailIsTrue == DeliverySpec => []DeliveredAsRecorded
<1>1. DeliveryInv => DeliveredAsRecorded
  BY DEF DeliveryInv, TaskFits, MailFits, DeliveredAsRecorded
<1>2. QED
  BY DeliveryInitially, DeliveryStep, <1>1, PTL DEF DeliverySpec

-----------------------------------------------------------------------------
(***************************************************************************)
(* Usage reports: NothingSkipped for any periods, ticks and times. A tick  *)
(* starts its report where the reports reach, or a period back when none   *)
(* was marked yet.                                                         *)
(***************************************************************************)

Active(t) == tick[t] # NoTick

\* A moment is in a report, and every moment is from the first report's start to x.
Within(y, R) == \E r \in R : r[1] <= y /\ y <= r[2]
CoveredTo(x, first, R) == \A y \in Int : first <= y /\ y <= x => Within(y, R)

\* A tick is young; what it has mailed is a report; it starts, if none was marked
\* yet, a period back, which is longer than a tick takes, and else where the
\* reports reach.
TickFits(t) ==
    Active(t) =>
        /\ tick[t] \in Int \X Int
        /\ tick[t][2] <= hour /\ hour <= tick[t][2] + MaxTick
        /\ t \in mailed => tick[t] \in reports
        /\ since = NotYet => tick[t][1] + MaxTick < tick[t][2]
        /\ since # NotYet => CoveredTo(tick[t][1], since, reports)

ReportInv ==
    /\ hour \in Int /\ period \in Periods
    /\ lastSent \in Int \cup {NotYet} /\ since \in Int \cup {NotYet}
    /\ since = NotYet <=> lastSent = NotYet
    /\ tick \in [Ticks -> (Int \X Int) \cup {NoTick}]
    /\ mailed \subseteq {t \in Ticks : Active(t)}
    /\ reports \subseteq Int \X Int
    /\ \A t \in Ticks : TickFits(t)
    /\ since # NotYet => CoveredTo(lastSent, since, reports)

LEMMA ReportInitially == ReportInit => ReportInv
  BY ReportAssumption DEF ReportInit, ReportInv, Active, TickFits, CoveredTo

LEMMA ReadSettingsKeeps ==
    ASSUME ReportInv, NEW t \in Ticks, ReadSettings(t) PROVE ReportInv'
<1> DEFINE report == <<PeriodStart, hour>>
<1>1. /\ hour \in Int /\ period \in Int /\ MaxTick \in Nat /\ MaxTick < period
      /\ since = NotYet <=> lastSent = NotYet
  BY ReportAssumption DEF ReportInv
<1>2. /\ report \in Int \X Int /\ report[2] = hour
      /\ since = NotYet => report[1] + MaxTick < hour
      /\ since # NotYet => report[1] = lastSent
  BY <1>1 DEF PeriodStart, ReportInv
<1>3. /\ tick' = [tick EXCEPT ![t] = report] /\ ~Active(t) /\ t \notin mailed
      /\ UNCHANGED <<hour, wanted, period, lastSent, since, mailed, reports>>
  BY DEF ReadSettings, ReportInv, Active
<1> HIDE DEF report
<1>4. report # NoTick
  BY <1>2, ReportAssumption
<1>5. tick' \in [Ticks -> (Int \X Int) \cup {NoTick}]
  BY <1>2, <1>3 DEF ReportInv
<1>7. ASSUME NEW o \in Ticks PROVE TickFits(o)'
  <2>1. CASE o = t
    <3>1. tick'[o] = report
      BY <2>1, <1>3 DEF ReportInv
    <3>2. since # NotYet => CoveredTo(report[1], since, reports)
      BY <1>2 DEF ReportInv
    <3>3. QED
      BY <1>1, <1>2, <1>3, <2>1, <3>1, <3>2 DEF TickFits, Active
  <2>2. CASE o # t
    <3>1. tick'[o] = tick[o] /\ TickFits(o)
      BY <2>2, <1>3 DEF ReportInv
    <3>2. QED
      BY <1>3, <3>1 DEF TickFits, Active
  <2>3. QED
    BY <2>1, <2>2
<1>8. mailed' \subseteq {o \in Ticks : Active(o)'}
  BY <1>3, <1>4 DEF ReportInv, Active
<1>9. QED
  BY <1>3, <1>5, <1>7, <1>8 DEF ReportInv

LEMMA MailReportKeeps ==
    ASSUME ReportInv, NEW t \in Ticks, MailReport(t) PROVE ReportInv'
<1>1. /\ Active(t) /\ mailed' = mailed \cup {t} /\ reports' = reports \cup {tick[t]}
      /\ UNCHANGED <<hour, wanted, period, lastSent, since, tick>>
  BY DEF MailReport, Active
<1>2. tick[t] \in Int \X Int
  BY <1>1 DEF ReportInv, Active
<1>3. \A x, first : CoveredTo(x, first, reports) => CoveredTo(x, first, reports')
  BY <1>1 DEF CoveredTo, Within
<1>4. \A o \in Ticks : TickFits(o)'
  BY <1>1, <1>3 DEF TickFits, Active, ReportInv
<1>5. QED
  BY <1>1, <1>2, <1>3, <1>4 DEF ReportInv, Active

\* A tick that ends without its mark.
LEMMA TickFailsKeeps ==
    ASSUME ReportInv, NEW t \in Ticks, TickFails(t) PROVE ReportInv'
<1>1. /\ tick' = [tick EXCEPT ![t] = NoTick] /\ mailed' = mailed \ {t}
      /\ UNCHANGED <<hour, wanted, period, lastSent, since, reports>>
  BY DEF TickFails
<1>3. \A o \in Ticks : tick'[o] = IF o = t THEN NoTick ELSE tick[o]
  BY <1>1 DEF ReportInv
<1>4. \A o \in Ticks : TickFits(o)'
  BY <1>1, <1>3 DEF TickFits, Active, ReportInv
<1>5. QED
  BY <1>1, <1>3, <1>4 DEF ReportInv, Active

\* The mark: the tick's own report reaches from where the marked ones reach, or is the
\* first; any other tick that runs now read the settings within a tick's time of it.
LEMMA MarkSentKeeps ==
    ASSUME ReportInv, NEW t \in Ticks, MarkSent(t) PROVE ReportInv'
<1> DEFINE from == tick[t][1]
           to == tick[t][2]
<1>1. /\ t \in mailed /\ lastSent' = to /\ since' = IF since = NotYet THEN from ELSE since
      /\ tick' = [tick EXCEPT ![t] = NoTick] /\ mailed' = mailed \ {t}
      /\ UNCHANGED <<hour, wanted, period, reports>>
  BY DEF MarkSent
<1>2. /\ Active(t) /\ tick[t] \in reports /\ from \in Int /\ to \in Int
      /\ to <= hour /\ hour <= to + MaxTick /\ hour \in Int /\ MaxTick \in Nat
      /\ since # NotYet => CoveredTo(from, since, reports)
  BY <1>1, ReportAssumption DEF ReportInv, TickFits
<1>3. since' \in Int /\ since' # NotYet /\ lastSent' \in Int /\ lastSent' # NotYet
  BY <1>1, <1>2, ReportAssumption DEF ReportInv
<1>4. \A y \in Int : from <= y /\ y <= to => Within(y, reports)
  BY <1>2 DEF Within
<1>6. CoveredTo(to, since', reports)
  <2>1. CASE since = NotYet
    BY <2>1, <1>1, <1>4 DEF CoveredTo
  <2>2. CASE since # NotYet
    <3> SUFFICES ASSUME NEW y \in Int, since <= y, y <= to PROVE Within(y, reports)
      BY <2>2, <1>1 DEF CoveredTo
    <3>1. CASE y <= from
      BY <3>1, <2>2, <1>2 DEF CoveredTo
    <3>2. CASE ~(y <= from)
      BY <3>2, <1>2, <1>4
    <3>3. QED
      BY <3>1, <3>2
  <2>3. QED
    BY <2>1, <2>2
<1>7. \A o \in Ticks : tick'[o] = IF o = t THEN NoTick ELSE tick[o]
  BY <1>1 DEF ReportInv
<1>8. ASSUME NEW o \in Ticks, Active(o)' PROVE CoveredTo(tick'[o][1], since', reports)
  <2>1. o # t /\ tick'[o] = tick[o] /\ Active(o) /\ TickFits(o) /\ tick[o][1] \in Int /\ tick[o][2] \in Int
    BY <1>7, <1>8 DEF Active, ReportInv, TickFits
  <2>2. CASE since = NotYet
    <3>1. tick[o][1] <= to
      BY <2>1, <2>2, <1>2 DEF TickFits
    <3>2. QED
      BY <2>1, <2>2, <3>1, <1>1, <1>2, <1>4 DEF CoveredTo
  <2>3. CASE since # NotYet
    BY <2>1, <2>3, <1>1 DEF TickFits, CoveredTo
  <2>4. QED
    BY <2>2, <2>3
<1>9. \A o \in Ticks : TickFits(o)'
  BY <1>1, <1>3, <1>7, <1>8 DEF TickFits, Active, ReportInv
<1>10. tick' \in [Ticks -> (Int \X Int) \cup {NoTick}] /\ mailed' \subseteq {o \in Ticks : Active(o)'}
  BY <1>1, <1>7 DEF ReportInv, Active
<1>11. QED
  BY <1>1, <1>3, <1>6, <1>9, <1>10 DEF ReportInv

LEMMA ReportStep == ReportInv /\ [ReportNext]_reportVars => ReportInv'
<1> SUFFICES ASSUME ReportInv, [ReportNext]_reportVars PROVE ReportInv'
  OBVIOUS
<1>1. ASSUME NEW t \in Ticks, ReadSettings(t) \/ MailReport(t) \/ MarkSent(t) \/ TickFails(t)
      PROVE  ReportInv'
  BY <1>1, ReadSettingsKeeps, MailReportKeeps, MarkSentKeeps, TickFailsKeeps
<1>2. ASSUME UNCHANGED <<lastSent, since, tick, mailed, reports>>,
             hour' \in Int, period' \in Periods,
             \A t \in Ticks : Active(t) => tick[t][2] <= hour' /\ hour' <= tick[t][2] + MaxTick
      PROVE  ReportInv'
  <2>1. \A t \in Ticks : TickFits(t)'
    BY <1>2 DEF ReportInv, TickFits, Active
  <2>2. QED
    BY <1>2, <2>1 DEF ReportInv, Active
<1>3. CASE PatchSettings
  <2>1. \A t \in Ticks : Active(t) => tick[t][2] <= hour /\ hour <= tick[t][2] + MaxTick
    BY DEF ReportInv, TickFits
  <2>2. QED
    BY <1>2, <1>3, <2>1 DEF PatchSettings, ReportInv
<1>4. CASE HourPasses
  <2>1. ASSUME NEW t \in Ticks, Active(t) PROVE tick[t][2] <= hour' /\ hour' <= tick[t][2] + MaxTick
    <3>1. /\ tick[t][2] \in Int /\ tick[t][2] <= hour /\ hour \in Int /\ hour' = hour + 1
          /\ hour - tick[t][2] < MaxTick /\ MaxTick \in Int
      BY <1>4, <2>1, ReportAssumption DEF ReportInv, TickFits, HourPasses, Active
    <3>2. QED
      BY <3>1
  <2>2. QED
    BY <1>2, <1>4, <2>1 DEF HourPasses, ReportInv
<1>5. CASE UNCHANGED reportVars
  <2>1. \A t \in Ticks : Active(t) => tick[t][2] <= hour /\ hour <= tick[t][2] + MaxTick
    BY DEF ReportInv, TickFits
  <2>2. QED
    BY <1>2, <1>5, <2>1 DEF reportVars, ReportInv
<1>6. QED
  BY <1>1, <1>3, <1>4, <1>5 DEF ReportNext

-----------------------------------------------------------------------------
\* The bounded quantities that ReportInv leaves out.
LEMMA ReportTypeStep == ReportInv /\ ReportTypeOK /\ [ReportNext]_reportVars => ReportTypeOK'
<1> SUFFICES ASSUME ReportInv, ReportTypeOK, [ReportNext]_reportVars PROVE ReportTypeOK'
  OBVIOUS
<1> USE DEF ReportTypeOK
<1>1. ASSUME NEW t \in Ticks, ReadSettings(t) PROVE ReportTypeOK'
  <2>1. hour - PeriodStart >= period /\ period \in Nat \ {0} /\ hour \in 0..MaxHour
    BY <1>1, ReportAssumption DEF ReadSettings, Due
  <2>2. PeriodStart \in Int
    BY <2>1, ReportAssumption DEF PeriodStart
  <2>3. <<PeriodStart, hour>> \in Reports
    BY <2>1, <2>2 DEF Reports
  <2>4. ran' \in 0..MaxTicksRun
    BY <1>1, ReportAssumption DEF ReadSettings
  <2>5. tick' \in [Ticks -> Reports \cup {NoTick}]
    BY <1>1, <2>3 DEF ReadSettings
  <2>6. mailed' \subseteq {o \in Ticks : tick'[o] # NoTick}
    <3>1. tick'[t] # NoTick
      BY <1>1, <2>3, ReportAssumption DEF ReadSettings, Reports
    <3>2. QED
      BY <1>1, <3>1 DEF ReadSettings
  <2>7. QED
    BY <1>1, <2>4, <2>5, <2>6 DEF ReadSettings
<1>2. ASSUME NEW t \in Ticks, MailReport(t) PROVE ReportTypeOK'
  <2>1. tick[t] \in Reports
    BY <1>2 DEF MailReport
  <2>2. QED
    BY <1>2, <2>1 DEF MailReport
<1>3. ASSUME NEW t \in Ticks, MarkSent(t) PROVE ReportTypeOK'
  <2>1. tick[t] \in Reports /\ tick[t][1] \in Int /\ tick[t][2] \in 0..MaxHour
    BY <1>3 DEF MarkSent, Reports
  <2>2. tick' \in [Ticks -> Reports \cup {NoTick}] /\ mailed' \subseteq {o \in Ticks : tick'[o] # NoTick}
    BY <1>3 DEF MarkSent
  <2>3. QED
    BY <1>3, <2>1, <2>2 DEF MarkSent
<1>4. ASSUME NEW t \in Ticks, TickFails(t) PROVE ReportTypeOK'
  BY <1>4 DEF TickFails
<1>5. CASE PatchSettings
  BY <1>5 DEF PatchSettings
<1>6. CASE HourPasses
  BY <1>6, ReportAssumption DEF HourPasses
<1>7. CASE UNCHANGED reportVars
  BY <1>7 DEF reportVars
<1>8. QED
  BY <1>1, <1>2, <1>3, <1>4, <1>5, <1>6, <1>7 DEF ReportNext

LEMMA ReportTypeInitially == ReportInit => ReportTypeOK
<1> SUFFICES ASSUME ReportInit PROVE ReportTypeOK
  OBVIOUS
<1>1. hour = 0 /\ ran = 0 /\ 0 \in 0..MaxHour /\ 0 \in 0..MaxTicksRun
  BY ReportAssumption DEF ReportInit
<1>2. wanted \in BOOLEAN
  BY DEF ReportInit
<1>3. QED
  BY <1>1, <1>2 DEF ReportInit, ReportTypeOK

\* The mailed reports leave no gap from the first one marked to the last, for every
\* number of overlapping ticks, whatever fails and however the settings change, as
\* long as a tick takes less than a period.
THEOREM ReportsLeaveNoGap == ReportSpec => []NothingSkipped
<1>1. ReportInv => NothingSkipped
  <2> SUFFICES ASSUME ReportInv, lastSent # NotYet, NEW t \in since..lastSent PROVE Covered(t)
    BY DEF NothingSkipped
  <2>1. since \in Int /\ lastSent \in Int /\ CoveredTo(lastSent, since, reports)
    BY DEF ReportInv
  <2>2. QED
    BY <2>1 DEF CoveredTo, Within, Covered
<1>2. QED
  BY ReportInitially, ReportStep, <1>1, PTL DEF ReportSpec

-----------------------------------------------------------------------------
(***************************************************************************)
(* Audit trail: MirrorNeverMatters for any events, texts and settings of   *)
(* the mirror.                                                             *)
(***************************************************************************)

\* A row is there from its insert on, and whoever waits has been told nothing.
EventFits(s, what, there) ==
    /\ s \in {"none", "inserting"} => ~there /\ what = "nothing"
    /\ s \in OnTheWay => there /\ what = "nothing"
    /\ what = "ok" => there

AuditInv ==
    /\ AuditTypeOK
    /\ \A e \in AuditEvents : EventFits(stage[e], told[e], e \in auditRows)
    /\ \A w \in wire : w[1] \in auditRows /\ told[w[1]] # "error"
    /\ WireBounded

LEMMA AuditInitially == AuditInit => AuditInv
  BY DEF AuditInit, AuditInv, AuditTypeOK, EventFits, OnTheWay, WireBounded, Transports

-----------------------------------------------------------------------------
LEMMA BytesIsSum == \A t, n : Bytes(t, n) = SumOver(t, 1..n)
BY DEF Bytes, SumOver

LEMMA BytesNat ==
    ASSUME NEW t \in Seq(1..4), NEW n \in 0..Len(t)
    PROVE  Bytes(t, n) \in Nat
<1>1. t \in [1..Len(t) -> Nat] /\ 1..n \subseteq 1..Len(t)
  <2>1. Len(t) \in Nat /\ t \in [1..Len(t) -> 1..4]
    OBVIOUS
  <2>2. \A i \in 1..Len(t) : t[i] \in Nat
    BY <2>1
  <2>3. QED
    BY <2>1, <2>2
<1>3. IsFiniteSet(1..n)
  BY FS_Interval
<1>2. QED
  BY <1>1, <1>3, BytesIsSum, SumOverNat

LEMMA BytesOfNothing == \A t : Bytes(t, 0) = 0
<1>1. 1..0 = {} /\ IsFiniteSet({})
  BY FS_EmptySet
<1>2. QED
  BY <1>1, BytesIsSum, SumOverUnfold

\* A text that is cut takes what the budget leaves, but for two bytes of the
\* replacement of a character that is cut through; of no budget it takes nothing.
LEMMA CutFits ==
    ASSUME NEW t \in Seq(1..4), NEW budget \in Nat
    PROVE  /\ Cut(t, budget) \in Nat /\ Cut(t, budget) <= budget + 2
           /\ budget = 0 => Cut(t, budget) = 0
<1> DEFINE fit == {n \in 0..Len(t) : Bytes(t, n) <= budget}
           whole == Max(fit)
<1>1. Len(t) \in Nat /\ Bytes(t, Len(t)) \in Nat
  BY BytesNat
<1>2. 0 \in fit /\ fit \subseteq Nat
  BY <1>1, BytesOfNothing
<1>3. IsFiniteSet(fit)
  <2>1. IsFiniteSet(0..Len(t)) /\ fit \subseteq 0..Len(t)
    BY <1>1, FS_Interval
  <2> HIDE DEF fit
  <2>2. QED
    BY <2>1, FS_Subset
<1>4. whole \in fit
  <2> HIDE DEF fit
  <2> QED
    BY <1>2, <1>3, LargestNumber
<1>5. Bytes(t, whole) \in Nat /\ Bytes(t, whole) <= budget
  BY <1>4, BytesNat
<1>6. Cut(t, budget) = IF Bytes(t, Len(t)) <= budget THEN Bytes(t, Len(t))
                       ELSE Bytes(t, whole) + IF Bytes(t, whole) = budget THEN 0 ELSE 3
  BY DEF Cut
<1> HIDE DEF whole
<1>7. QED
  BY <1>1, <1>5, <1>6

\* So a message stays within its bound, or has no room for more than the marker.
LEMMA MessageFits ==
    ASSUME NEW h \in Nat, NEW t \in Seq(1..4)
    PROVE  /\ Message(h, t) \in Nat
           /\ Message(h, t) <= MaxMessage + 2 \/ Message(h, t) = h + MarkerBytes
<1> DEFINE taken == h + MarkerBytes
           all == Bytes(t, Len(t))
<1>1. all \in Nat /\ taken \in Nat /\ MaxMessage \in Nat
  BY BytesNat, AuditAssumption
<1>2. CASE h + all <= MaxMessage
  BY <1>1, <1>2 DEF Message
<1>3. CASE ~(h + all <= MaxMessage) /\ taken < MaxMessage
  <2> DEFINE cut == Cut(t, MaxMessage - taken)
  <2>1. MaxMessage - taken \in Nat
    BY <1>1, <1>3
  <2>2. cut \in Nat /\ cut <= (MaxMessage - taken) + 2
    BY <2>1, CutFits
  <2>3. Message(h, t) = taken + cut
    BY <1>3 DEF Message
  <2> HIDE DEF cut, taken
  <2>4. QED
    BY <1>1, <2>2, <2>3
<1>4. CASE ~(h + all <= MaxMessage) /\ ~(taken < MaxMessage)
  <2>1. Cut(t, 0) = 0
    BY CutFits
  <2>2. Message(h, t) = taken + Cut(t, 0)
    BY <1>4 DEF Message
  <2>3. QED
    BY <1>1, <2>1, <2>2
<1>5. QED
  BY <1>2, <1>3, <1>4

-----------------------------------------------------------------------------
LEMMA AuditStep == AuditInv /\ [AuditNext]_auditVars => AuditInv'
<1> SUFFICES ASSUME AuditInv, [AuditNext]_auditVars PROVE AuditInv'
  OBVIOUS
<1> USE DEF AuditInv, AuditTypeOK, EventFits, OnTheWay, WireBounded, Transports
<1>1. ASSUME NEW e \in AuditEvents, Record(e) PROVE AuditInv'
  BY <1>1 DEF Record, Reach
<1>2. ASSUME NEW e \in AuditEvents, Insert(e) PROVE AuditInv'
  BY <1>2 DEF Insert, Reach
<1>3. ASSUME NEW e \in AuditEvents, InsertFails(e) PROVE AuditInv'
  BY <1>3 DEF InsertFails, Tell, Reach
<1>4. ASSUME NEW e \in AuditEvents, ReadForwarding(e) PROVE AuditInv'
  <2>1. UNCHANGED <<auditRows, wire, forward>> /\ stage[e] = "reading"
    BY <1>4 DEF ReadForwarding
  <2>2. CASE forward = "off"
    <3>1. Tell(e, "ok")
      BY <1>4, <2>2 DEF ReadForwarding
    <3>2. QED
      BY <2>1, <3>1 DEF Tell, Reach
  <2>3. CASE forward # "off"
    <3>1. UNCHANGED told /\ (Reach(e, "resolving") \/ Reach(e, "connecting"))
      BY <1>4, <2>3 DEF ReadForwarding
    <3>2. QED
      BY <2>1, <3>1 DEF Reach
  <2>4. QED
    BY <2>2, <2>3
<1>5. ASSUME NEW e \in AuditEvents, Reachable(e) PROVE AuditInv'
  BY <1>5 DEF Reachable, Reach
<1>6. ASSUME NEW e \in AuditEvents, Depart(e) PROVE AuditInv'
  <2> DEFINE bytes == Message(HeaderBytes[e], FreeText[e])
  <2>1. bytes \in Nat /\ (bytes <= MaxMessage + 2 \/ bytes = HeaderBytes[e] + MarkerBytes)
    BY AuditAssumption, MessageFits
  <2>2. wire' = wire \cup {<<e, bytes>>}
    BY <1>6 DEF Depart
  <2> HIDE DEF bytes
  <2>3. e \in auditRows
    BY <1>6 DEF Depart
  <2>4. wire' \subseteq AuditEvents \X Nat /\ WireBounded'
        /\ \A w \in wire' : w[1] \in auditRows /\ told[w[1]] # "error"
    BY <1>6, <2>1, <2>2, <2>3 DEF Depart
  <2>5. QED
    BY <1>6, <2>4 DEF Depart, Reach
<1>7. ASSUME NEW e \in AuditEvents, Forwarded(e) PROVE AuditInv'
  BY <1>7 DEF Forwarded, Tell, Reach
<1>8. ASSUME NEW e \in AuditEvents, ForwardingFails(e) PROVE AuditInv'
  BY <1>8 DEF ForwardingFails, Tell, Reach
<1>9. CASE LoseProcess
  BY <1>9 DEF LoseProcess
<1>10. CASE SetForwarding
  BY <1>10 DEF SetForwarding
<1>11. CASE UNCHANGED auditVars
  BY <1>11 DEF auditVars
<1>13. ASSUME NEW e \in AuditEvents, InsertAnswerLost(e) PROVE AuditInv'
  BY <1>13 DEF InsertAnswerLost, Tell, Reach
<1>12. QED
  BY <1>1, <1>2, <1>3, <1>4, <1>5, <1>6, <1>7, <1>8, <1>9, <1>10, <1>11, <1>13 DEF AuditNext

\* What a caller is told is decided by the insert alone, nothing is forwarded that the
\* trail does not have, and every message keeps its bound, for texts of every length and all bounds.
THEOREM ForwardingOnlyMirrors == AuditSpec => []MirrorNeverMatters
<1>1. AuditInv => MirrorNeverMatters
  BY DEF AuditInv, EventFits, MirrorNeverMatters
<1>2. QED
  BY AuditInitially, AuditStep, <1>1, PTL DEF AuditSpec

-----------------------------------------------------------------------------
(***************************************************************************)
(* Component status: ShownWasTrueLately for any passes and times. What a   *)
(* pass found was so when it probed, and the key expires in time.          *)
(***************************************************************************)

\* What a pass has found: true when it probed, which is no longer ago than a probe takes.
PassRecent(p) ==
    pass[p] # NoPass =>
        /\ lastIn[pass[p][1]] # Absent /\ pass[p][2] <= lastIn[pass[p][1]]
        /\ pass[p][2] <= moment /\ moment <= pass[p][2] + ProbeTime

\* The key has not expired, and will have when what it says is too long ago.
KeyRecent ==
    statusKey # Absent =>
        /\ lastIn[statusKey] # Absent /\ moment < expires
        /\ expires <= lastIn[statusKey] + KeyTtl + ProbeTime

StatusInv ==
    /\ StatusTypeOK
    /\ lastIn[reachable] = moment
    /\ \A v \in {"up", "down"} : lastIn[v] # Absent => lastIn[v] <= moment
    /\ \A p \in Passes : PassRecent(p)
    /\ KeyRecent
    /\ ShownWasTrueLately

LEMMA StatusInitially == StatusInit => StatusInv
  BY StatusAssumption DEF StatusInit, StatusInv, StatusTypeOK, PassRecent, KeyRecent, ShownWasTrueLately, Shown

LEMMA StatusStep == StatusInv /\ [StatusNext]_statusVars => StatusInv'
<1> USE StatusAssumption DEF StatusInv, StatusTypeOK, PassRecent, KeyRecent, ShownWasTrueLately, Shown
<1> SUFFICES ASSUME StatusInv, [StatusNext]_statusVars PROVE StatusInv'
  OBVIOUS
<1>1. ASSUME NEW p \in Passes, Probe(p) PROVE StatusInv'
  BY <1>1 DEF Probe
<1>2. ASSUME NEW p \in Passes, Publish(p) PROVE StatusInv'
  BY <1>2 DEF Publish
<1>3. ASSUME NEW p \in Passes, PublishFails(p) PROVE StatusInv'
  BY <1>3 DEF PublishFails
<1>4. CASE ReadStatus
  BY <1>4 DEF ReadStatus
<1>5. CASE Toggle
  BY <1>5 DEF Toggle
<1>6. CASE MomentPasses
  BY <1>6 DEF MomentPasses
<1>7. CASE UNCHANGED statusVars
  BY <1>7 DEF statusVars
<1>8. QED
  BY <1>1, <1>2, <1>3, <1>4, <1>5, <1>6, <1>7 DEF StatusNext

\* Whatever the map answers was true of LibreChat within a key's life and a probe's
\* time, for every number of overlapping passes and all values of both.
THEOREM ShownIsRecent == StatusSpec => []ShownWasTrueLately
<1>1. StatusInv => ShownWasTrueLately
  BY DEF StatusInv
<1>2. QED
  BY StatusInitially, StatusStep, <1>1, PTL DEF StatusSpec

-----------------------------------------------------------------------------
(***************************************************************************)
(* The dialog of lists and destinations: a save drops only what its user   *)
(* unchecked, for any editors and items. What an open dialog shows but     *)
(* does not have selected, its user unchecked.                             *)
(***************************************************************************)

\* What an open dialog does not have selected of what was shown, its user unchecked;
\* and so it was when a save under way was sent.
DialogFits(d, known) ==
    /\ d \in Dialog /\ known \in {NotLoaded} \cup SUBSET Items
    /\ d.open /\ known # NotLoaded => known \ d.selected \subseteq d.unchecked
    /\ d.saving /\ d.base # NotLoaded => d.base \ d.want \subseteq d.dropped

SettingsInv ==
    /\ attached \subseteq Items
    /\ dialog \in [Editors -> Dialog] /\ shown \in [Editors -> {NotLoaded} \cup SUBSET Items]
    /\ \A e \in Editors : DialogFits(dialog[e], shown[e])

LEMMA SettingsInitially == SettingsInit => SettingsInv
<1> SUFFICES ASSUME SettingsInit PROVE SettingsInv
  OBVIOUS
<1>1. Fresh \in Dialog /\ ~Fresh.open /\ ~Fresh.saving
  BY DEF Fresh, Dialog
<1>2. /\ dialog = [e \in Editors |-> Fresh] /\ shown = [e \in Editors |-> NotLoaded] /\ attached \subseteq Items
  BY DEF SettingsInit
<1> HIDE DEF Fresh
<1>3. QED
  BY <1>1, <1>2 DEF SettingsInv, DialogFits

-----------------------------------------------------------------------------
\* What the handlers leave in a dialog.
LEMMA CheckboxesSet ==
    ASSUME dialog \in [Editors -> Dialog], NEW e \in Editors, NEW S \in SUBSET Items
    PROVE  /\ Checkboxes(e, S) \in [Editors -> Dialog]
           /\ Checkboxes(e, S)[e] = [dialog[e] EXCEPT !.selected = S, !.unchecked = {}]
           /\ \A o \in Editors \ {e} : Checkboxes(e, S)[o] = dialog[o]
           /\ \A o \in Editors : Checkboxes(e, S)[o].saving = dialog[o].saving
<1> DEFINE n == [dialog[e] EXCEPT !.selected = S, !.unchecked = {}]
<1>1. dialog[e] \in Dialog
  OBVIOUS
<1>2. n \in Dialog /\ n.saving = dialog[e].saving
  BY <1>1 DEF Dialog
<1>3. Checkboxes(e, S) = [dialog EXCEPT ![e] = n]
  BY <1>1 DEF Checkboxes, Dialog
<1>4. \A o \in Editors : Checkboxes(e, S)[o] = IF o = e THEN n ELSE dialog[o]
  <2> HIDE DEF n
  <2> QED
    BY <1>3
<1>5. Checkboxes(e, S) \in [Editors -> Dialog]
  <2> HIDE DEF n
  <2> QED
    BY <1>2, <1>3
<1>6. \A o \in Editors : Checkboxes(e, S)[o].saving = dialog[o].saving
  <2> HIDE DEF n
  <2> QED
    BY <1>2, <1>4
<1>7. QED
  BY <1>4, <1>5, <1>6

\* The same of a dialog that is opened or closed.
LEMMA OpenedOrClosed ==
    ASSUME dialog \in [Editors -> Dialog], NEW e \in Editors, NEW S \in SUBSET Items, NEW b \in BOOLEAN,
           dialog' = [Checkboxes(e, S) EXCEPT ![e].open = b]
    PROVE  /\ dialog' \in [Editors -> Dialog]
           /\ dialog'[e] = [dialog[e] EXCEPT !.selected = S, !.unchecked = {}, !.open = b]
           /\ \A o \in Editors \ {e} : dialog'[o] = dialog[o]
           /\ \A o \in Editors : dialog'[o].saving = dialog[o].saving
<1> DEFINE n == [dialog[e] EXCEPT !.selected = S, !.unchecked = {}, !.open = b]
           boxes == Checkboxes(e, S)
<1>1. /\ boxes \in [Editors -> Dialog] /\ boxes[e] = [dialog[e] EXCEPT !.selected = S, !.unchecked = {}]
      /\ \A o \in Editors \ {e} : boxes[o] = dialog[o]
  BY CheckboxesSet
<1>2. dialog[e] \in Dialog
  OBVIOUS
<1>3. n \in Dialog /\ n.saving = dialog[e].saving
  BY <1>2 DEF Dialog
<1>4. [boxes[e] EXCEPT !.open = b] = n
  BY <1>1, <1>2 DEF Dialog
<1> HIDE DEF n, boxes
<1>5. dialog' = [boxes EXCEPT ![e] = n]
  BY <1>4 DEF boxes
<1>6. dialog' \in [Editors -> Dialog] /\ dialog'[e] = n /\ \A o \in Editors \ {e} : dialog'[o] = dialog[o]
  BY <1>1, <1>3, <1>5
<1>7. QED
  BY <1>3, <1>6 DEF n

\* An editor acts on a dialog and a browser of their own: it is enough to look at those.
LEMMA OneEditorActs ==
    ASSUME SettingsInv, NEW e \in Editors,
           attached' \subseteq Items,
           dialog' \in [Editors -> Dialog], shown' \in [Editors -> {NotLoaded} \cup SUBSET Items],
           \A o \in Editors \ {e} : dialog'[o] = dialog[o] /\ shown'[o] = shown[o],
           DialogFits(dialog'[e], shown'[e])
    PROVE  SettingsInv'
  BY DEF SettingsInv

LEMMA OpenKeeps == ASSUME SettingsInv, NEW e \in Editors, Open(e) PROVE SettingsInv'
<1>1. /\ dialog' = [Checkboxes(e, Known(e)) EXCEPT ![e].open = TRUE] /\ UNCHANGED <<attached, shown>>
      /\ dialog \in [Editors -> Dialog] /\ dialog[e] \in Dialog /\ DialogFits(dialog[e], shown[e])
      /\ shown[e] \in {NotLoaded} \cup SUBSET Items
  BY DEF Open, SettingsInv
<1>2. Known(e) \in SUBSET Items /\ (shown[e] # NotLoaded => Known(e) = shown[e])
  BY <1>1 DEF Known
<1> DEFINE n == [dialog[e] EXCEPT !.selected = Known(e), !.unchecked = {}, !.open = TRUE]
<1>3. dialog' \in [Editors -> Dialog] /\ dialog'[e] = n /\ \A o \in Editors \ {e} : dialog'[o] = dialog[o]
  BY <1>1, <1>2, OpenedOrClosed, TRUE \in BOOLEAN
<1>4. /\ n \in Dialog /\ n.selected = Known(e) /\ n.saving = dialog[e].saving /\ n.base = dialog[e].base
      /\ n.want = dialog[e].want /\ n.dropped = dialog[e].dropped
  BY <1>1, <1>2 DEF Dialog
<1> HIDE DEF n
<1>5. DialogFits(n, shown[e])
  BY <1>1, <1>2, <1>4 DEF DialogFits
<1>6. QED
  BY <1>1, <1>3, <1>5, OneEditorActs DEF SettingsInv

\* What the browser shows becomes what is attached, and the checkboxes with it.
LEMMA LandKeeps == ASSUME SettingsInv, NEW e \in Editors, LandAttached(e) PROVE SettingsInv'
<1>1. /\ shown' = [shown EXCEPT ![e] = attached] /\ UNCHANGED attached
      /\ dialog \in [Editors -> Dialog] /\ dialog[e] \in Dialog /\ DialogFits(dialog[e], shown[e])
      /\ shown \in [Editors -> {NotLoaded} \cup SUBSET Items] /\ attached \in SUBSET Items
  BY DEF LandAttached, SettingsInv
<1>2. shown' \in [Editors -> {NotLoaded} \cup SUBSET Items] /\ shown'[e] = attached
      /\ \A o \in Editors \ {e} : shown'[o] = shown[o]
  BY <1>1
<1>3. CASE dialog' = Checkboxes(e, Seed(e)) /\ dialog[e].open
  <2> DEFINE n == [dialog[e] EXCEPT !.selected = attached, !.unchecked = {}]
  <2>1. dialog' \in [Editors -> Dialog] /\ dialog'[e] = n /\ \A o \in Editors \ {e} : dialog'[o] = dialog[o]
    <3>1. /\ Checkboxes(e, attached) \in [Editors -> Dialog] /\ Checkboxes(e, attached)[e] = n
          /\ \A o \in Editors \ {e} : Checkboxes(e, attached)[o] = dialog[o]
      BY <1>1, CheckboxesSet
    <3>2. dialog' = Checkboxes(e, attached)
      BY <1>3 DEF Seed
    <3>3. QED
      BY <3>1, <3>2
  <2>2. /\ n \in Dialog /\ n.selected = attached /\ n.saving = dialog[e].saving /\ n.base = dialog[e].base
        /\ n.want = dialog[e].want /\ n.dropped = dialog[e].dropped
    BY <1>1 DEF Dialog
  <2> HIDE DEF n
  <2>3. DialogFits(n, attached)
    BY <1>1, <2>2 DEF DialogFits
  <2>4. QED
    BY <1>1, <1>2, <2>1, <2>3, OneEditorActs
<1>4. CASE UNCHANGED dialog /\ (~dialog[e].open \/ shown[e] = attached)
  <2>1. DialogFits(dialog[e], attached)
    BY <1>1, <1>4 DEF DialogFits
  <2>2. QED
    BY <1>1, <1>2, <1>4, <2>1, OneEditorActs
<1>5. QED
  BY <1>3, <1>4 DEF LandAttached

LEMMA ForgetKeeps == ASSUME SettingsInv, NEW e \in Editors, Forget(e) PROVE SettingsInv'
<1>1. /\ ~dialog[e].open /\ shown' = [shown EXCEPT ![e] = NotLoaded] /\ UNCHANGED <<attached, dialog>>
      /\ shown \in [Editors -> {NotLoaded} \cup SUBSET Items] /\ DialogFits(dialog[e], shown[e])
  BY DEF Forget, SettingsInv
<1>2. shown' \in [Editors -> {NotLoaded} \cup SUBSET Items] /\ shown'[e] = NotLoaded
      /\ \A o \in Editors \ {e} : shown'[o] = shown[o]
  BY <1>1
<1>3. DialogFits(dialog[e], NotLoaded)
  BY <1>1 DEF DialogFits
<1>4. QED
  BY <1>1, <1>2, <1>3, OneEditorActs DEF SettingsInv

LEMMA TickKeeps ==
    ASSUME SettingsInv, NEW e \in Editors, NEW i \in Items, Tick(e, i) PROVE SettingsInv'
<1> DEFINE d == dialog[e]
<1>1. /\ dialog \in [Editors -> Dialog] /\ d \in Dialog /\ DialogFits(d, shown[e]) /\ UNCHANGED <<attached, shown>>
      /\ d.open /\ shown[e] \in {NotLoaded} \cup SUBSET Items
      /\ d.selected \subseteq Items /\ d.unchecked \subseteq Items
  BY DEF SettingsInv, Tick, Dialog
<1>2. ASSUME NEW S \in SUBSET Items, NEW U \in SUBSET Items,
             dialog' = [dialog EXCEPT ![e].selected = S, ![e].unchecked = U],
             shown[e] # NotLoaded => shown[e] \ S \subseteq U
      PROVE  SettingsInv'
  <2> DEFINE n == [d EXCEPT !.selected = S, !.unchecked = U]
  <2>1. dialog' = [dialog EXCEPT ![e] = n]
    BY <1>1, <1>2 DEF Dialog
  <2>2. /\ n \in Dialog /\ n.selected = S /\ n.unchecked = U /\ n.saving = d.saving /\ n.base = d.base
        /\ n.want = d.want /\ n.dropped = d.dropped
    BY <1>1 DEF Dialog
  <2> HIDE DEF n, d
  <2>3. DialogFits(n, shown[e])
    BY <1>1, <1>2, <2>2 DEF DialogFits
  <2>4. dialog' \in [Editors -> Dialog] /\ dialog'[e] = n /\ \A o \in Editors \ {e} : dialog'[o] = dialog[o]
    BY <1>1, <2>1, <2>2
  <2>5. QED
    BY <1>1, <2>3, <2>4, OneEditorActs DEF SettingsInv
<1>3. CASE i \in d.selected
  <2> DEFINE S == d.selected \ {i}
             U == d.unchecked \cup ({i} \cap Known(e))
  <2>1. dialog' = [dialog EXCEPT ![e].selected = S, ![e].unchecked = U]
    BY <1>1, <1>3 DEF Tick
  <2>2. S \in SUBSET Items /\ U \in SUBSET Items
    BY <1>1
  <2>3. shown[e] # NotLoaded => shown[e] \ S \subseteq U
    BY <1>1 DEF DialogFits, Known
  <2> HIDE DEF S, U, d
  <2>4. QED
    BY <2>1, <2>2, <2>3, <1>2
<1>4. CASE i \notin d.selected
  <2> DEFINE S == d.selected \cup {i}
             U == d.unchecked \ {i}
  <2>1. dialog' = [dialog EXCEPT ![e].selected = S, ![e].unchecked = U]
    BY <1>1, <1>4 DEF Tick
  <2>2. S \in SUBSET Items /\ U \in SUBSET Items
    BY <1>1
  <2>3. shown[e] # NotLoaded => shown[e] \ S \subseteq U
    BY <1>1 DEF DialogFits
  <2> HIDE DEF S, U, d
  <2>4. QED
    BY <2>1, <2>2, <2>3, <1>2
<1>5. QED
  BY <1>3, <1>4

LEMMA CloseKeeps == ASSUME SettingsInv, NEW e \in Editors, Close(e) PROVE SettingsInv'
<1>1. /\ dialog' = [Checkboxes(e, {}) EXCEPT ![e].open = FALSE] /\ UNCHANGED <<attached, shown>>
      /\ dialog \in [Editors -> Dialog] /\ dialog[e] \in Dialog /\ DialogFits(dialog[e], shown[e])
  BY DEF Close, SettingsInv
<1> DEFINE n == [dialog[e] EXCEPT !.selected = {}, !.unchecked = {}, !.open = FALSE]
<1>2. dialog' \in [Editors -> Dialog] /\ dialog'[e] = n /\ \A o \in Editors \ {e} : dialog'[o] = dialog[o]
  BY <1>1, OpenedOrClosed, FALSE \in BOOLEAN, {} \in SUBSET Items
<1>3. /\ n \in Dialog /\ ~n.open /\ n.saving = dialog[e].saving /\ n.base = dialog[e].base
      /\ n.want = dialog[e].want /\ n.dropped = dialog[e].dropped
  BY <1>1 DEF Dialog
<1> HIDE DEF n
<1>4. DialogFits(n, shown[e])
  BY <1>1, <1>3 DEF DialogFits
<1>5. QED
  BY <1>1, <1>2, <1>4, OneEditorActs DEF SettingsInv

\* A save takes along what was shown, selected and unchecked.
LEMMA SaveKeeps == ASSUME SettingsInv, NEW e \in Editors, Save(e) PROVE SettingsInv'
<1> DEFINE d == dialog[e]
           n == [d EXCEPT !.saving = TRUE, !.want = d.selected, !.base = shown[e], !.dropped = d.unchecked]
<1>1. /\ dialog \in [Editors -> Dialog] /\ d \in Dialog /\ DialogFits(d, shown[e]) /\ UNCHANGED <<attached, shown>>
      /\ d.open /\ shown[e] \in {NotLoaded} \cup SUBSET Items
  BY DEF SettingsInv, Save
<1>2. dialog' = [dialog EXCEPT ![e] = n]
  BY <1>1 DEF Save, Dialog
<1>3. /\ n \in Dialog /\ n.open = d.open /\ n.selected = d.selected /\ n.unchecked = d.unchecked
      /\ n.want = d.selected /\ n.base = shown[e] /\ n.dropped = d.unchecked
  BY <1>1 DEF Dialog
<1> HIDE DEF n, d
<1>4. DialogFits(n, shown[e])
  BY <1>1, <1>3 DEF DialogFits
<1>5. dialog' \in [Editors -> Dialog] /\ dialog'[e] = n /\ \A o \in Editors \ {e} : dialog'[o] = dialog[o]
  <2>1. n \in Dialog /\ dialog \in [Editors -> Dialog]
    BY <1>1, <1>3
  <2>2. QED
    BY <1>2, <2>1
<1>6. QED
  BY <1>1, <1>4, <1>5, OneEditorActs DEF SettingsInv

LEMMA WriteSaveKeeps == ASSUME SettingsInv, NEW e \in Editors, WriteSave(e) PROVE SettingsInv'
<1> DEFINE d == dialog[e]
           n == [d EXCEPT !.saving = FALSE, !.want = {}, !.base = {}, !.dropped = {}]
           m == [n EXCEPT !.open = FALSE, !.selected = {}, !.unchecked = {}]
<1>1. /\ dialog \in [Editors -> Dialog] /\ d \in Dialog /\ DialogFits(d, shown[e]) /\ UNCHANGED shown
      /\ shown[e] \in {NotLoaded} \cup SUBSET Items /\ attached \subseteq Items /\ d.want \subseteq Items
  BY DEF SettingsInv, WriteSave, Dialog
<1>2. /\ n \in Dialog /\ ~n.saving /\ n.open = d.open /\ n.selected = d.selected /\ n.unchecked = d.unchecked
      /\ m \in Dialog /\ ~m.saving /\ ~m.open
  BY <1>1 DEF Dialog
<1>3. Done(e) = [dialog EXCEPT ![e] = n]
  BY <1>1 DEF Done, Dialog
<1> HIDE DEF n
<1>4. [Done(e) EXCEPT ![e].open = FALSE, ![e].selected = {}, ![e].unchecked = {}] = [dialog EXCEPT ![e] = m]
  BY <1>1, <1>2, <1>3 DEF Dialog
<1>5. attached' \subseteq Items /\ (dialog' = [dialog EXCEPT ![e] = n] \/ dialog' = [dialog EXCEPT ![e] = m])
  BY <1>1, <1>3, <1>4 DEF WriteSave
<1> HIDE DEF m, d
<1>6. DialogFits(n, shown[e]) /\ DialogFits(m, shown[e])
  BY <1>1, <1>2 DEF DialogFits
<1>7. dialog' \in [Editors -> Dialog] /\ dialog'[e] \in {n, m} /\ \A o \in Editors \ {e} : dialog'[o] = dialog[o]
  BY <1>1, <1>2, <1>5
<1>8. QED
  BY <1>1, <1>5, <1>6, <1>7, OneEditorActs DEF SettingsInv

LEMMA SettingsStep == SettingsInv /\ [SettingsNext]_settingsVars => SettingsInv'
<1> SUFFICES ASSUME SettingsInv, [SettingsNext]_settingsVars PROVE SettingsInv'
  OBVIOUS
<1>1. ASSUME attached' \subseteq attached, UNCHANGED BrowserVars PROVE SettingsInv'
  BY <1>1 DEF SettingsInv, BrowserVars
<1>2. ASSUME NEW e \in Editors, NEW i \in Items, AddItem(e, i) \/ DeleteItem(e, i) \/ SwitchItem(e, i)
      PROVE  SettingsInv'
  BY <1>1, <1>2 DEF AddItem, DeleteItem, SwitchItem
<1>3. ASSUME NEW e \in Editors, Focus(e) PROVE SettingsInv'
  BY <1>3 DEF Focus, SettingsInv
<1>4. CASE UNCHANGED settingsVars
  BY <1>1, <1>4 DEF settingsVars, BrowserVars
<1>5. QED
  BY <1>2, <1>3, <1>4, OpenKeeps, LandKeeps, ForgetKeeps, TickKeeps, CloseKeeps, SaveKeeps, WriteSaveKeeps
     DEF SettingsNext

-----------------------------------------------------------------------------
\* The rest of the type: the rows of the items, the bound and the queries.
LEMMA SettingsTypeStep == SettingsInv /\ SettingsInv' /\ SettingsTypeOK /\ [SettingsNext]_settingsVars => SettingsTypeOK'
<1> SUFFICES ASSUME SettingsInv, SettingsInv', SettingsTypeOK, [SettingsNext]_settingsVars PROVE SettingsTypeOK'
  OBVIOUS
<1>1. attached' \subseteq Items /\ dialog' \in [Editors -> Dialog] /\ shown' \in [Editors -> {NotLoaded} \cup SUBSET Items]
  BY DEF SettingsInv
<1>2. /\ topic \in {"lists", "destinations"} /\ item \in [Items -> Item] /\ calls \in 0..MaxCalls
      /\ fetching \subseteq Editors
  BY DEF SettingsTypeOK
<1>3. ASSUME topic' = topic, item' \in [Items -> Item], calls' \in 0..MaxCalls, fetching' \subseteq Editors
      PROVE  SettingsTypeOK'
  BY <1>1, <1>2, <1>3 DEF SettingsTypeOK
<1>4. Call => calls' \in 0..MaxCalls
  BY <1>2, SettingsAssumption DEF Call
<1>5. ASSUME NEW i \in Items PROVE
      /\ [item EXCEPT ![i].state = "live"] \in [Items -> Item]
      /\ [item EXCEPT ![i].state = "deleted"] \in [Items -> Item]
      /\ [item EXCEPT ![i].active = ~@] \in [Items -> Item]
  <2>1. item[i] \in Item
    BY <1>2
  <2>2. /\ [item[i] EXCEPT !.state = "live"] \in Item /\ [item[i] EXCEPT !.state = "deleted"] \in Item
        /\ [item[i] EXCEPT !.active = ~@] \in Item
    BY <2>1 DEF Item
  <2>3. /\ [item EXCEPT ![i].state = "live"] = [item EXCEPT ![i] = [item[i] EXCEPT !.state = "live"]]
        /\ [item EXCEPT ![i].state = "deleted"] = [item EXCEPT ![i] = [item[i] EXCEPT !.state = "deleted"]]
        /\ [item EXCEPT ![i].active = ~@] = [item EXCEPT ![i] = [item[i] EXCEPT !.active = ~@]]
    BY <1>2
  <2>4. QED
    BY <1>2, <2>2, <2>3
<1>6. ASSUME NEW e \in Editors, Open(e) \/ Focus(e) \/ LandAttached(e) \/ Forget(e) \/ Close(e) \/ Save(e)
      PROVE  SettingsTypeOK'
  BY <1>2, <1>3, <1>4, <1>6 DEF Open, Focus, LandAttached, Forget, Close, Save
<1>7. ASSUME NEW e \in Editors, WriteSave(e) PROVE SettingsTypeOK'
  BY <1>2, <1>3, <1>7 DEF WriteSave
<1>8. ASSUME NEW e \in Editors, NEW i \in Items, AddItem(e, i) \/ DeleteItem(e, i) \/ SwitchItem(e, i) \/ Tick(e, i)
      PROVE  SettingsTypeOK'
  <2>1. fetching' = fetching /\ topic' = topic
    BY <1>8 DEF AddItem, DeleteItem, SwitchItem, Tick, BrowserVars
  <2>2. calls' \in 0..MaxCalls
    BY <1>2, <1>4, <1>8 DEF AddItem, DeleteItem, SwitchItem, Tick
  <2>3. item' \in [Items -> Item]
    BY <1>2, <1>5, <1>8 DEF AddItem, DeleteItem, SwitchItem, Tick
  <2>4. QED
    BY <1>2, <1>3, <2>1, <2>2, <2>3
<1>9. CASE UNCHANGED settingsVars
  BY <1>2, <1>3, <1>9 DEF settingsVars
<1>10. QED
  BY <1>6, <1>7, <1>8, <1>9 DEF SettingsNext

LEMMA SettingsTypeInitially == SettingsInit => SettingsTypeOK
<1> SUFFICES ASSUME SettingsInit PROVE SettingsTypeOK
  OBVIOUS
<1>1. SettingsInv
  BY SettingsInitially
<1>2. item \in [Items -> Item] /\ calls = 0 /\ fetching = {}
  BY DEF SettingsInit, FirstItems
<1>3. 0 \in 0..MaxCalls
  BY SettingsAssumption
<1>4. QED
  BY <1>1, <1>2, <1>3 DEF SettingsInit, SettingsInv, SettingsTypeOK

-----------------------------------------------------------------------------
\* A save of one editor ends in no step of another.
LEMMA OnlyWriteSaveSaves ==
    ASSUME SettingsInv, [SettingsNext]_settingsVars, NEW e \in Editors, Saves(e)
    PROVE  WriteSave(e)
<1>1. dialog \in [Editors -> Dialog] /\ dialog[e].saving /\ ~dialog'[e].saving /\ dialog[e] \in Dialog
  BY DEF SettingsInv, Saves
<1>2. dialog' # dialog
  BY <1>1
<1>3. \E o \in Editors : \/ Open(o) \/ LandAttached(o) \/ Close(o) \/ Save(o) \/ WriteSave(o)
                         \/ \E i \in Items : Tick(o, i)
  BY <1>2 DEF SettingsNext, settingsVars, Focus, Forget, AddItem, DeleteItem, SwitchItem, BrowserVars
<1>4. PICK o \in Editors : \/ Open(o) \/ LandAttached(o) \/ Close(o) \/ Save(o) \/ WriteSave(o)
                           \/ \E i \in Items : Tick(o, i)
  BY <1>3
<1>5. CASE Open(o)
  <2>1. Known(o) \in SUBSET Items
    BY DEF Known, SettingsInv
  <2>2. dialog' = [Checkboxes(o, Known(o)) EXCEPT ![o].open = TRUE]
    BY <1>5 DEF Open
  <2>3. dialog'[e].saving = dialog[e].saving
    BY <1>1, <2>1, <2>2, OpenedOrClosed, TRUE \in BOOLEAN
  <2>4. QED
    BY <1>1, <2>3
<1>6. CASE LandAttached(o)
  <2>1. Seed(o) \in SUBSET Items /\ dialog' = Checkboxes(o, Seed(o))
    BY <1>2, <1>6 DEF LandAttached, SettingsInv, Seed
  <2>2. dialog'[e].saving = dialog[e].saving
    <3>1. \A x \in Editors : Checkboxes(o, Seed(o))[x].saving = dialog[x].saving
      BY <1>1, <2>1, CheckboxesSet
    <3>2. QED
      BY <2>1, <3>1
  <2>3. QED
    BY <1>1, <2>2
<1>7. CASE Close(o)
  <2>1. dialog' = [Checkboxes(o, {}) EXCEPT ![o].open = FALSE]
    BY <1>7 DEF Close
  <2>2. dialog'[e].saving = dialog[e].saving
    BY <1>1, <2>1, OpenedOrClosed, FALSE \in BOOLEAN, {} \in SUBSET Items
  <2>3. QED
    BY <1>1, <2>2
<1>8. CASE Save(o)
  <2>1. CASE o = e
    BY <2>1, <1>1, <1>8 DEF Save
  <2>2. CASE o # e
    BY <2>2, <1>1, <1>8 DEF Save
  <2>3. QED
    BY <2>1, <2>2
<1>9. ASSUME NEW i \in Items, Tick(o, i) PROVE FALSE
  BY <1>1, <1>9 DEF Tick, Dialog
<1>10. CASE WriteSave(o)
  <2>1. CASE o # e
    BY <2>1, <1>1, <1>10 DEF WriteSave, Done
  <2>2. QED
    BY <2>1, <1>10
<1>11. QED
  BY <1>4, <1>5, <1>6, <1>7, <1>8, <1>9, <1>10

\* An editor who saves what the last answer showed, and nothing has changed since, takes
\* away only what they unchecked, for every number of editors and items.
THEOREM SavesDropOnlyUnchecked == SettingsSpec => UncheckedOnly
<1> DEFINE Careful == \A e \in Editors : Saves(e) /\ dialog[e].base = attached => Removed \subseteq dialog[e].dropped
<1>1. SettingsInv /\ [SettingsNext]_settingsVars => [Careful]_settingsVars
  <2> SUFFICES ASSUME SettingsInv, [SettingsNext]_settingsVars, NEW e \in Editors, Saves(e),
                      dialog[e].base = attached
               PROVE  Removed \subseteq dialog[e].dropped
    OBVIOUS
  <2>1. WriteSave(e)
    BY OnlyWriteSaveSaves
  <2>2. attached # NotLoaded /\ DialogFits(dialog[e], shown[e])
    BY SettingsAssumption DEF SettingsInv
  <2>3. attached \ dialog[e].want \subseteq dialog[e].dropped
    BY <2>1, <2>2 DEF DialogFits, WriteSave
  <2>4. attached' = dialog[e].want \/ attached' = attached
    BY <2>1 DEF WriteSave
  <2>5. QED
    BY <2>3, <2>4 DEF Removed
<1>2. QED
  BY SettingsInitially, SettingsStep, <1>1, PTL DEF SettingsSpec, UncheckedOnly

-----------------------------------------------------------------------------
(***************************************************************************)
(* The form of schedules: an edit starts from the schedule as it was       *)
(* saved, for any schedules, versions and times.                           *)
(***************************************************************************)

\* The form, while it edits, holds what the list showed of the schedule, what the user
\* typed or what the version that became effective last has; and its time.
EditFits(f, row, versionsSince, changed) ==
    f.editing # NoSchedule =>
        /\ row \in ScheduleRow
        /\ f.values \in MayHold(row, versionsSince)
        /\ ~changed =>
              /\ f.type = row.timing.type
              /\ f.type = "ONE_TIME" => f.wall = WallClock[row.timing.at]
              /\ f.type = "RECURRING" => f.interval = row.timing.interval

\* The ref is armed only until the first change.
FormInv ==
    /\ FormTypeOK
    /\ EditFits(fields, seen, became, touched)
    /\ skip => became.changes = 0

\* Steps that leave the form alone.
FormRests == UNCHANGED <<fields, seen, became, touched>>

LEMMA StoredIsRow == \A x \in Schedules : Stored(x) \subseteq ScheduleRow
  BY FormAssumption DEF Stored, ScheduleRow, Modes, VariableValues

LEMMA NoChangeIsNone ==
    NoChange \in [changes : 0..2, last : 0..MaxVersions] /\ NoChange.changes = 0
  BY FormAssumption DEF NoChange

LEMMA FormInitially == FormInit => FormInv
<1> SUFFICES ASSUME FormInit PROVE FormInv
  OBVIOUS
<1>1. schedules \in [Schedules -> ScheduleRow \cup {NoSchedule}]
  BY StoredIsRow DEF FormInit
<1>2. fields \in Form /\ fields.editing = NoSchedule
  BY FormAssumption DEF FormInit, Form, ScheduleTypes, Intervals, Modes, VariableValues
<1>3. listed \in [Schedules -> ScheduleRow \cup {NoSchedule}]
  BY DEF FormInit
<1>4. underWay \in FormRequest
  BY DEF FormInit, FormRequest
<1>5. /\ versions \in 1..MaxVersions /\ {cached, effective} \subseteq 0..MaxVersions
      /\ clicks \in 0..MaxClicks /\ seen = NoSchedule /\ became \in [changes : 0..2, last : 0..MaxVersions]
  <2>1. 1 \in 1..MaxVersions /\ 0 \in 0..MaxVersions /\ 0 \in 0..MaxClicks
    BY FormAssumption
  <2>2. versions = 1 /\ cached = 0 /\ effective = 0 /\ clicks = 0 /\ seen = NoSchedule /\ became = NoChange
    BY DEF FormInit
  <2>3. QED
    BY <2>1, <2>2, NoChangeIsNone
<1>6. skip = FALSE /\ touched = FALSE
  BY DEF FormInit
<1>7. QED
  BY <1>1, <1>2, <1>3, <1>4, <1>5, <1>6 DEF FormInv, FormTypeOK, EditFits

-----------------------------------------------------------------------------
LEMMA EffectiveIsVersion ==
    ASSUME NEW f \in Form, NEW known \in 0..MaxVersions
    PROVE  EffectiveVersion(f, known) \in 0..MaxVersions
<1>1. f.pinned \in 0..MaxVersions /\ 0 \in 0..MaxVersions
  BY FormAssumption DEF Form
<1>2. QED
  BY <1>1 DEF EffectiveVersion

\* A render leaves a form, whose values are as they were or those of the version that
\* became effective.
LEMMA RenderFits ==
    ASSUME NEW f \in Form, NEW known \in 0..MaxVersions, NEW armed \in BOOLEAN, Render(f, known, armed)
    PROVE  /\ fields' \in Form /\ skip' \in BOOLEAN /\ effective' = EffectiveVersion(f, known)
           /\ effective' \in 0..MaxVersions
           /\ fields'.editing = f.editing /\ fields'.type = f.type /\ fields'.wall = f.wall
           /\ fields'.interval = f.interval
           /\ fields'.values = IF armed \/ effective' = effective THEN f.values ELSE effective'
           /\ skip' = (armed /\ effective' = effective)
<1> DEFINE e == EffectiveVersion(f, known)
<1>1. e \in 0..MaxVersions
  BY EffectiveIsVersion
<1>2. effective' = e /\ skip' = (armed /\ e = effective)
      /\ fields' = IF armed \/ e = effective THEN f ELSE [f EXCEPT !.values = e]
  BY DEF Render
<1> HIDE DEF e
<1>3. skip' \in BOOLEAN
  <2>1. (armed /\ e = effective) \in BOOLEAN
    OBVIOUS
  <2>2. QED
    BY <1>2, <2>1
<1>4. LET g == [f EXCEPT !.values = e] IN
      /\ g \in Form /\ g.editing = f.editing /\ g.type = f.type /\ g.wall = f.wall
      /\ g.interval = f.interval /\ g.values = e
  BY <1>1 DEF Form, VariableValues
<1>5. CASE armed \/ e = effective
  BY <1>1, <1>2, <1>3, <1>5 DEF e
<1>6. CASE ~armed /\ e # effective
  BY <1>1, <1>2, <1>3, <1>4, <1>6 DEF e
<1>7. QED
  BY <1>5, <1>6

\* A render that is not the first of an edit: what it puts in place became effective.
LEMMA RerenderKeeps ==
    ASSUME FormInv, NEW f \in Form, NEW known \in 0..MaxVersions, Rerender(f, known),
           f.editing = fields.editing, f.type = fields.type, f.wall = fields.wall,
           f.interval = fields.interval, f.values = fields.values,
           UNCHANGED <<schedules, seen, touched, underWay, listed>>,
           versions' \in 1..MaxVersions, cached' \in 0..MaxVersions, clicks' \in 0..MaxClicks
    PROVE  FormInv'
<1> DEFINE e == EffectiveVersion(f, known)
<1>1. skip \in BOOLEAN /\ became \in [changes : 0..2, last : 0..MaxVersions]
  BY DEF FormInv, FormTypeOK
<1>2. /\ fields' \in Form /\ skip' \in BOOLEAN /\ effective' \in 0..MaxVersions /\ effective' = e
      /\ fields'.editing = f.editing /\ fields'.type = f.type /\ fields'.wall = f.wall
      /\ fields'.interval = f.interval
      /\ fields'.values = IF skip \/ e = effective THEN f.values ELSE e
      /\ skip' = (skip /\ e = effective)
  BY <1>1, RenderFits DEF Rerender
<1>3. became' = IF e = effective THEN became ELSE Changed(e)
  BY DEF Rerender
<1> HIDE DEF e
<1>4. /\ Changed(e) \in [changes : 0..2, last : 0..MaxVersions]
      /\ Changed(e).changes > 0 /\ Changed(e).last = e
      /\ became.changes = 0 => Changed(e).changes = 1
  <2> DEFINE n == IF became.changes = 2 THEN 2 ELSE became.changes + 1
  <2>1. n \in 0..2 /\ n > 0 /\ (became.changes = 0 => n = 1)
    BY <1>1
  <2>2. Changed(e) = [changes |-> n, last |-> e]
    BY DEF Changed
  <2> HIDE DEF n
  <2>3. QED
    BY <1>2, <2>1, <2>2
<1>5. became' \in [changes : 0..2, last : 0..MaxVersions] /\ (skip' => became'.changes = 0)
  BY <1>1, <1>2, <1>3, <1>4 DEF FormInv
<1>6. f.editing # NoSchedule => fields'.values \in MayHold(seen', became')
  <2>1. f.editing # NoSchedule => f.values \in MayHold(seen, became)
    BY DEF FormInv, EditFits
  <2>2. CASE e = effective
    BY <1>2, <1>3, <2>1, <2>2
  <2>3. CASE e # effective /\ skip
    <3>1. became.changes = 0
      BY <2>3 DEF FormInv
    <3>2. QED
      BY <1>2, <1>3, <1>4, <2>1, <2>3, <3>1 DEF MayHold
  <2>4. CASE e # effective /\ ~skip
    BY <1>2, <1>3, <1>4, <2>4 DEF MayHold
  <2>5. QED
    BY <2>2, <2>3, <2>4
<1>7. EditFits(fields', seen', became', touched')
  BY <1>2, <1>6 DEF FormInv, EditFits
<1>8. FormTypeOK'
  BY <1>2, <1>5 DEF FormInv, FormTypeOK
<1>9. QED
  BY <1>5, <1>7, <1>8 DEF FormInv

LEMMA LandPromptKeeps == FormInv /\ LandPrompt => FormInv'
<1> SUFFICES ASSUME FormInv, LandPrompt PROVE FormInv'
  OBVIOUS
<1>1. /\ fields \in Form /\ versions \in 1..MaxVersions /\ clicks \in 0..MaxClicks
      /\ Rerender(fields, versions) /\ cached' = versions
      /\ UNCHANGED <<schedules, versions, listed, underWay, clicks, seen, touched>>
  BY DEF FormInv, FormTypeOK, LandPrompt, storedVars
<1>2. versions \in 0..MaxVersions
  BY <1>1, FormAssumption
<1>3. QED
  BY <1>1, <1>2, RerenderKeeps

LEMMA ChooseVersionKeeps ==
    ASSUME FormInv, NEW mode \in Modes, NEW version \in 0..MaxVersions, ChooseVersion(mode, version)
    PROVE  FormInv'
<1> DEFINE f == [fields EXCEPT !.mode = mode, !.pinned = version]
<1>1. /\ fields \in Form /\ versions \in 1..MaxVersions /\ cached \in 0..MaxVersions
      /\ clicks' \in 0..MaxClicks /\ Rerender(f, cached)
      /\ UNCHANGED <<schedules, versions, listed, cached, underWay, seen, touched>>
  BY FormAssumption DEF FormInv, FormTypeOK, ChooseVersion, storedVars, Click
<1>2. /\ f \in Form /\ f.editing = fields.editing /\ f.type = fields.type /\ f.wall = fields.wall
      /\ f.interval = fields.interval /\ f.values = fields.values
  BY <1>1 DEF Form
<1> HIDE DEF f
<1>3. QED
  BY <1>1, <1>2, RerenderKeeps

\* An edit takes every field that the schedule has a value for from it.
LEMMA SeededFits ==
    ASSUME FormInv, NEW s \in Schedules, listed[s] # NoSchedule
    PROVE  /\ listed[s] \in ScheduleRow
           /\ SeededFrom(s) \in Form /\ SeededFrom(s).editing = s
           /\ EditFits(SeededFrom(s), listed[s], NoChange, FALSE)
<1> DEFINE r == listed[s]
           w == IF r.timing.type = "ONE_TIME" THEN WallClock[r.timing.at] ELSE fields.wall
           i == IF r.timing.type = "RECURRING" THEN r.timing.interval ELSE fields.interval
           f == [fields EXCEPT !.editing = s, !.type = r.timing.type, !.mode = r.mode, !.pinned = r.pinned,
                               !.values = r.values, !.wall = w, !.interval = i]
<1>1. r \in ScheduleRow /\ fields \in Form
  BY DEF FormInv, FormTypeOK
<1>2. /\ r.timing \in Timing /\ r.mode \in Modes /\ r.pinned \in 0..MaxVersions /\ r.values \in VariableValues
      /\ fields.wall \in Walls \cup {NoWall} /\ fields.interval \in Intervals
  BY <1>1 DEF ScheduleRow, Form
<1>3. r.timing.type \in ScheduleTypes
  BY <1>2 DEF Timing, ScheduleTypes
<1>4. r.timing.type = "ONE_TIME" => r.timing.at \in Instants
  BY <1>2 DEF Timing
<1>5. r.timing.type = "RECURRING" => r.timing.interval \in Intervals
  BY <1>2 DEF Timing, Intervals
<1>6. w \in Walls \cup {NoWall} /\ i \in Intervals
  BY <1>2, <1>4, <1>5 DEF Walls
<1>7. SeededFrom(s) = f
  BY DEF SeededFrom
<1>8. /\ f \in Form /\ f.editing = s /\ f.type = r.timing.type /\ f.values = r.values
      /\ f.wall = w /\ f.interval = i
  <2> HIDE DEF w, i, r
  <2>1. QED
    BY <1>1, <1>2, <1>3, <1>6 DEF Form
<1> HIDE DEF f
<1>9. EditFits(f, r, NoChange, FALSE)
  BY <1>1, <1>8 DEF EditFits, MayHold, NoChange
<1>10. QED
  BY <1>1, <1>7, <1>8, <1>9

LEMMA OpenEditKeeps ==
    ASSUME FormInv, NEW s \in Schedules, OpenEdit(s) PROVE FormInv'
<1>1. /\ listed[s] # NoSchedule /\ Render(SeededFrom(s), cached, TRUE)
      /\ seen' = listed[s] /\ became' = NoChange /\ touched' = FALSE
      /\ UNCHANGED <<schedules, versions, listed, cached, underWay>>
  BY DEF OpenEdit, Opened, storedVars
<1>2. cached \in 0..MaxVersions /\ clicks' \in 0..MaxClicks
  BY FormAssumption DEF FormInv, FormTypeOK, OpenEdit, Click
<1> DEFINE f == SeededFrom(s)
<1>3. f \in Form /\ listed[s] \in ScheduleRow /\ EditFits(f, listed[s], NoChange, FALSE)
  BY <1>1, SeededFits
<1> HIDE DEF f
<1>4. /\ fields' \in Form /\ skip' \in BOOLEAN /\ effective' \in 0..MaxVersions
      /\ fields'.editing = f.editing /\ fields'.type = f.type /\ fields'.wall = f.wall
      /\ fields'.interval = f.interval /\ fields'.values = f.values
  <2>1. Render(f, cached, TRUE) /\ TRUE \in BOOLEAN
    BY <1>1 DEF f
  <2>2. QED
    BY <2>1, <1>2, <1>3, RenderFits
<1>5. EditFits(fields', seen', became', touched')
  BY <1>1, <1>3, <1>4 DEF EditFits
<1>6. FormTypeOK'
  BY <1>1, <1>2, <1>3, <1>4, NoChangeIsNone DEF FormInv, FormTypeOK
<1>7. QED
  BY <1>1, <1>5, <1>6, NoChangeIsNone DEF FormInv

-----------------------------------------------------------------------------
\* A step of the database, the list or a save: the form and its history rest.
LEMMA RestKeeps ==
    ASSUME FormInv, FormRests, UNCHANGED <<cached, skip, effective>>,
           schedules' \in [Schedules -> ScheduleRow \cup {NoSchedule}],
           listed' \in [Schedules -> ScheduleRow \cup {NoSchedule}],
           versions' \in 1..MaxVersions, underWay' \in FormRequest, clicks' \in 0..MaxClicks
    PROVE  FormInv'
  BY DEF FormInv, FormTypeOK, FormRests

\* A step that changes the fields only.
LEMMA FieldsKeep ==
    ASSUME FormInv, UNCHANGED <<storedVars, listed, cached, skip, effective, seen, became>>,
           fields' \in Form, underWay' \in FormRequest, clicks' \in 0..MaxClicks, touched' \in BOOLEAN,
           EditFits(fields', seen, became, touched')
    PROVE  FormInv'
  BY DEF FormInv, FormTypeOK, storedVars

LEMMA TimingsAreTimings ==
    ASSUME NEW f \in Form, NEW t \in TimingsOf(f)
    PROVE  /\ t \in Timing /\ t.type = f.type
           /\ f.type = "ONE_TIME" => t.at \in Instants /\ WallClock[t.at] = f.wall
           /\ f.type = "RECURRING" => t.interval = f.interval
<1>1. f.type \in ScheduleTypes /\ f.interval \in Intervals
  BY DEF Form
<1>2. CASE f.type = "ONE_TIME"
  BY <1>2 DEF TimingsOf, InstantsAt, Timing
<1>3. CASE f.type = "RECURRING" /\ f.interval = "daily"
  BY <1>3 DEF TimingsOf, Timing
<1>4. CASE f.type = "RECURRING" /\ f.interval = "every_n_hours"
  BY <1>4 DEF TimingsOf, Timing
<1>5. QED
  BY <1>1, <1>2, <1>3, <1>4 DEF ScheduleTypes, Intervals

\* A save sends the fields.
LEMMA SaveFormSends ==
    ASSUME FormInv, SaveForm
    PROVE  /\ underWay' \in FormRequest
           /\ \E t \in TimingsOf(fields) :
                 underWay'.row.timing = t /\ underWay'.row.values = fields.values
           /\ underWay'.of = "update" => fields.editing # NoSchedule
<1>1. PICK t \in TimingsOf(fields) :
        underWay' = [of |-> IF fields.editing # NoSchedule THEN "update" ELSE "create", id |-> fields.editing,
                     row |-> [timing |-> t, mode |-> fields.mode, values |-> fields.values,
                              pinned |-> IF fields.mode = "PINNED" THEN fields.pinned ELSE 0],
                     stage |-> "sent"]
  BY DEF SaveForm
<1>2. fields \in Form
  BY DEF FormInv, FormTypeOK
<1>3. t \in Timing
  BY <1>2, TimingsAreTimings
<1> DEFINE row == [timing |-> t, mode |-> fields.mode, values |-> fields.values,
                   pinned |-> IF fields.mode = "PINNED" THEN fields.pinned ELSE 0]
<1>4. row \in ScheduleRow /\ row.timing = t /\ row.values = fields.values
  BY <1>2, <1>3, FormAssumption DEF ScheduleRow, Form
<1> HIDE DEF row
<1>5. /\ underWay'.row = row /\ (underWay'.of = "update" => fields.editing # NoSchedule)
      /\ underWay' \in FormRequest
  <2>1. fields.editing \in Schedules \cup {NoSchedule}
    BY <1>2 DEF Form
  <2>2. underWay' = [of |-> IF fields.editing # NoSchedule THEN "update" ELSE "create", id |-> fields.editing,
                     row |-> row, stage |-> "sent"]
    BY <1>1 DEF row
  <2>3. QED
    BY <2>1, <2>2, <1>4 DEF FormRequest
<1>6. QED
  BY <1>4, <1>5

LEMMA WriteFormKeeps == FormInv /\ WriteForm => FormInv'
<1> SUFFICES ASSUME FormInv, WriteForm PROVE FormInv'
  OBVIOUS
<1>1. /\ underWay \in FormRequest /\ underWay # NothingSent
      /\ schedules \in [Schedules -> ScheduleRow \cup {NoSchedule}]
      /\ UNCHANGED <<versions, listed, cached, fields, skip, effective, clicks, seen, became, touched>>
  BY DEF FormInv, FormTypeOK, WriteForm, formHistory
<1>2. /\ underWay.row \in ScheduleRow
      /\ \A st \in {"ok", "failed"} : [underWay EXCEPT !.stage = st] \in FormRequest
  BY <1>1 DEF FormRequest
<1>3. underWay' \in FormRequest
  BY <1>2 DEF WriteForm
<1>4. schedules' \in [Schedules -> ScheduleRow \cup {NoSchedule}]
  BY <1>1, <1>2 DEF WriteForm
<1>5. QED
  BY <1>1, <1>3, <1>4, RestKeeps DEF FormInv, FormTypeOK, FormRests

LEMMA SaveFormEndsKeeps == FormInv /\ SaveFormEnds => FormInv'
<1> SUFFICES ASSUME FormInv, SaveFormEnds PROVE FormInv'
  OBVIOUS
<1>1. /\ fields \in Form /\ underWay' = NothingSent /\ clicks \in 0..MaxClicks /\ touched \in BOOLEAN
      /\ EditFits(fields, seen, became, touched)
      /\ UNCHANGED <<storedVars, listed, cached, skip, effective, clicks, seen, became, touched>>
  BY DEF FormInv, FormTypeOK, SaveFormEnds, formHistory
<1>2. LET f == [fields EXCEPT !.creating = FALSE] IN
      /\ f \in Form /\ f.editing = fields.editing /\ f.values = fields.values /\ f.type = fields.type
      /\ f.wall = fields.wall /\ f.interval = fields.interval
  BY <1>1 DEF Form
<1>3. [fields EXCEPT !.editing = NoSchedule] \in Form /\ [fields EXCEPT !.editing = NoSchedule].editing = NoSchedule
  BY <1>1 DEF Form
<1>4. fields' \in {fields, [fields EXCEPT !.creating = FALSE], [fields EXCEPT !.editing = NoSchedule]}
  <2>1. CASE underWay.stage = "failed"
    BY <2>1 DEF SaveFormEnds
  <2>2. CASE underWay.stage # "failed" /\ underWay.of = "create"
    BY <2>2 DEF SaveFormEnds
  <2>3. CASE underWay.stage # "failed" /\ underWay.of # "create"
    BY <2>3 DEF SaveFormEnds
  <2>4. QED
    BY <2>1, <2>2, <2>3
<1>5. fields' \in Form /\ EditFits(fields', seen, became, touched)
  BY <1>1, <1>2, <1>3, <1>4 DEF EditFits
<1>6. NothingSent \in FormRequest
  BY DEF FormRequest
<1>7. QED
  BY <1>1, <1>5, <1>6, FieldsKeep

-----------------------------------------------------------------------------
LEMMA FormStep == FormInv /\ [FormNext]_formVars => FormInv'
<1> SUFFICES ASSUME FormInv, [FormNext]_formVars PROVE FormInv'
  OBVIOUS
<1>0. FormTypeOK /\ fields \in Form /\ touched \in BOOLEAN /\ EditFits(fields, seen, became, touched)
      /\ underWay \in FormRequest /\ clicks \in 0..MaxClicks
  BY DEF FormInv, FormTypeOK
<1>c. Click => clicks' \in 0..MaxClicks
  BY <1>0, FormAssumption DEF Click
<1>1. CASE LandList
  BY <1>1, RestKeeps DEF LandList, FormInv, FormTypeOK, FormRests, storedVars, formHistory
<1>2. CASE LandPrompt
  BY <1>2, LandPromptKeeps
<1>3. CASE NewVersion
  <2>1. versions' \in 1..MaxVersions
    BY <1>3, <1>0, FormAssumption DEF NewVersion, FormTypeOK
  <2>2. QED
    BY <1>3, <2>1, RestKeeps DEF NewVersion, FormInv, FormTypeOK, FormRests, formHistory
<1>4. CASE OpenCreate
  <2>1. LET f == [fields EXCEPT !.creating = TRUE] IN f \in Form /\ f.editing = fields.editing
    BY <1>0 DEF Form
  <2>2. fields.editing = NoSchedule /\ fields' = [fields EXCEPT !.creating = TRUE]
    BY <1>4 DEF OpenCreate, FormOpen
  <2>3. fields' \in Form /\ EditFits(fields', seen, became, touched)
    BY <2>1, <2>2 DEF EditFits
  <2>4. QED
    BY <1>0, <1>c, <1>4, <2>3, FieldsKeep DEF OpenCreate, formHistory
<1>5. CASE CloseForm
  <2>1. LET f == [fields EXCEPT !.creating = FALSE, !.editing = NoSchedule] IN f \in Form /\ f.editing = NoSchedule
    BY <1>0 DEF Form
  <2>2. fields' \in Form /\ EditFits(fields', seen, became, touched)
    BY <1>5, <2>1 DEF EditFits, CloseForm
  <2>3. QED
    BY <1>0, <1>c, <1>5, <2>2, FieldsKeep DEF CloseForm, formHistory
<1>6. CASE TypeValue
  <2>1. LET f == [fields EXCEPT !.values = Typed] IN
        /\ f \in Form /\ f.editing = fields.editing /\ f.values = Typed /\ f.type = fields.type
        /\ f.wall = fields.wall /\ f.interval = fields.interval
    BY <1>0 DEF Form, VariableValues
  <2>2. fields' \in Form /\ EditFits(fields', seen, became, touched)
    BY <1>0, <1>6, <2>1 DEF EditFits, MayHold, TypeValue
  <2>3. QED
    BY <1>0, <1>c, <1>6, <2>2, FieldsKeep DEF TypeValue, formHistory
<1>7. CASE SaveForm
  BY <1>c, <1>7, SaveFormSends, RestKeeps DEF SaveForm, FormInv, FormTypeOK, FormRests, storedVars, formHistory
<1>8. CASE WriteForm
  BY <1>8, WriteFormKeeps
<1>9. CASE SaveFormEnds
  BY <1>9, SaveFormEndsKeeps
<1>10. ASSUME NEW s \in Schedules, OpenEdit(s) PROVE FormInv'
  BY <1>10, OpenEditKeeps
<1>11. ASSUME NEW s \in Schedules, DeleteSchedule(s) PROVE FormInv'
  BY <1>c, <1>11, RestKeeps DEF DeleteSchedule, FormInv, FormTypeOK, FormRests, formHistory
<1>12. ASSUME NEW mode \in Modes, NEW version \in 0..MaxVersions, ChooseVersion(mode, version) PROVE FormInv'
  BY <1>12, ChooseVersionKeeps
<1>13. ASSUME NEW type \in ScheduleTypes, NEW wall \in Walls, NEW interval \in Intervals,
              ChooseTiming(type, wall, interval)
       PROVE  FormInv'
  <2>1. LET f == [fields EXCEPT !.type = type, !.wall = wall, !.interval = interval] IN
        f \in Form /\ f.editing = fields.editing /\ f.values = fields.values
    BY <1>0 DEF Form
  <2>2. fields' \in Form /\ EditFits(fields', seen, became, TRUE) /\ touched' = TRUE
    BY <1>0, <1>13, <2>1 DEF EditFits, ChooseTiming
  <2>3. QED
    BY <1>0, <1>c, <1>13, <2>2, FieldsKeep DEF ChooseTiming
<1>14. CASE UNCHANGED formVars
  BY <1>14, <1>0 DEF formVars, FormInv, FormTypeOK
<1>15. QED
  BY <1>1, <1>2, <1>3, <1>4, <1>5, <1>6, <1>7, <1>8, <1>9, <1>10, <1>11, <1>12, <1>13, <1>14 DEF FormNext

\* An edit that is sent starts from the schedule as the list showed it: nothing that the
\* form kept from an earlier use goes with it, whatever was fetched, saved or chosen between.
THEOREM EditsStartFromSaved == FormSpec => EditStartsFromSaved
<1> DEFINE Begins == underWay = NothingSent /\ underWay' # NothingSent /\ underWay'.of = "update"
           FromSaved == /\ underWay'.row.values \in MayHold(seen, became)
                        /\ touched \/ SameTiming(underWay'.row.timing, seen.timing)
<1>1. FormInv /\ [FormNext]_formVars => [Begins => FromSaved]_formVars
  <2> SUFFICES ASSUME FormInv, [FormNext]_formVars, Begins PROVE FromSaved
    OBVIOUS
  <2>1. SaveForm
    BY DEF FormNext, formVars, LandList, LandPrompt, NewVersion, OpenCreate, CloseForm, TypeValue, WriteForm,
           SaveFormEnds, OpenEdit, DeleteSchedule, ChooseVersion, ChooseTiming
  <2>2. fields \in Form /\ EditFits(fields, seen, became, touched) /\ touched \in BOOLEAN
    BY DEF FormInv, FormTypeOK
  <2>3. PICK t \in TimingsOf(fields) : underWay'.row.timing = t /\ underWay'.row.values = fields.values
    BY <2>1, SaveFormSends
  <2>4. fields.editing # NoSchedule
    BY <2>1, SaveFormSends
  <2>5. /\ t.type = fields.type
        /\ fields.type = "ONE_TIME" => WallClock[t.at] = fields.wall
        /\ fields.type = "RECURRING" => t.interval = fields.interval
    BY <2>2, TimingsAreTimings
  <2>6. touched \/ SameTiming(t, seen.timing)
    BY <2>2, <2>4, <2>5 DEF EditFits, SameTiming
  <2>7. QED
    BY <2>2, <2>3, <2>4, <2>6 DEF EditFits
<1>2. QED
  BY FormInitially, FormStep, <1>1, PTL DEF FormSpec, EditStartsFromSaved

-----------------------------------------------------------------------------
(***************************************************************************)
(* The dialog of a prompt: SettledShowsStored and DraftKeepsOneVersion for *)
(* any number of versions and of calls at a time. A change that is not     *)
(* shown yet has a fetch to come (WillShow): one that was asked after it,  *)
(* the one that its call asks when it is answered, or none, and the dialog *)
(* is known to have drifted.                                               *)
(***************************************************************************)

WillShow ==
    ~drifted /\ (\A c \in CallIds : mutation[c].stage # "ok") =>
        \/ asking.stage = "asked"
        \/ asking.stage = "read" /\ asking.data = detail
        \/ asking = NoFetch /\ fetched \in {detail, NotFetched}

DraftOfBase ==
    draft.adding =>
        /\ "content" \in draft.typed \/ draft.content = draft.base.content
        /\ "variables" \in draft.typed \/ draft.variables = draft.base.variables

DialogInv == DialogTypeOK /\ WillShow /\ DraftOfBase

\* The records of the dialog, however one of their fields changes.
LEMMA DetailChanges ==
    ASSUME NEW d \in Detail, NEW m \in Texts, NEW f \in BOOLEAN, NEW v \in PromptVersion
    PROVE  /\ [d EXCEPT !.meta = m] \in Detail /\ [d EXCEPT !.favorite = f] \in Detail
           /\ [d EXCEPT !.there = FALSE] \in Detail
           /\ Len(d.versions) < MaxHistory => [d EXCEPT !.versions = Append(@, v)] \in Detail
<1>1. d.versions \in Seq(PromptVersion) /\ Len(d.versions) \in 1..MaxHistory
  BY DEF Detail, Histories
<1>2. Append(d.versions, v) \in Seq(PromptVersion) /\ Len(Append(d.versions, v)) = Len(d.versions) + 1
  BY <1>1
<1>3. Len(d.versions) < MaxHistory => Append(d.versions, v) \in Histories
  BY <1>1, <1>2, DialogAssumption DEF Histories
<1>4. Len(d.versions) < MaxHistory => [d EXCEPT !.versions = Append(@, v)] \in Detail
  BY <1>3 DEF Detail
<1>5. QED
  BY <1>4 DEF Detail

LEMMA VersionsOf == \A d \in Detail : Newest(d) \in PromptVersion /\ \A i \in 1..Len(d.versions) : d.versions[i] \in PromptVersion
BY DEF Detail, Histories, Newest

LEMMA CallChanges ==
    ASSUME NEW k \in MutationCall, NEW t \in {"sent", "ok", "failed"}, k # NoCall
    PROVE  /\ [k EXCEPT !.stage = t] \in MutationCall /\ [k EXCEPT !.own = FALSE] \in MutationCall
           /\ [k EXCEPT !.stage = t].stage = t /\ [k EXCEPT !.own = FALSE].stage = k.stage
           /\ k.of = "meta" => k.body \in Texts
           /\ k.of \in {"version", "restore"} => k.body \in PromptVersion
           /\ k.of \in {"favorite", "delete"} => k.body \in BOOLEAN
           /\ k.of \in {"meta", "version", "restore", "favorite", "delete"}
BY DEF MutationCall, CallOf, NoCall

LEMMA NoCallIsCall == NoCall \in MutationCall /\ NoCall.stage = "idle"
BY DEF NoCall, MutationCall

LEMMA DialogInitially == DialogInit => DialogInv
<1> SUFFICES ASSUME DialogInit PROVE DialogInv
  OBVIOUS
<1>1. [content |-> "first", variables |-> "first"] \in PromptVersion
  BY DEF PromptVersion, Texts
<1>2. detail.versions \in Histories
  BY <1>1, DialogAssumption DEF DialogInit, Histories
<1>3. detail \in Detail
  BY <1>2 DEF DialogInit, Detail, Texts
<1>4. draft \in Draft /\ panel \in Panel /\ asking \in Fetch /\ ~draft.adding
  BY <1>1 DEF DialogInit, Draft, Panel, Fetch, NoDraft, NoPanel, NoFetch, Texts
<1>5. mutation \in [CallIds -> MutationCall] /\ doings \in 0..MaxDoings
  BY NoCallIsCall, DialogAssumption DEF DialogInit
<1>6. QED
  BY <1>3, <1>4, <1>5 DEF DialogInit, DialogInv, DialogTypeOK, WillShow, DraftOfBase

\* Steps that leave what is stored and what is fetched alone, and no call answered.
LEMMA EditorStep ==
    ASSUME DialogInv, UNCHANGED <<detail, fetched, asking, drifted>>,
           panel' \in Panel, draft' \in Draft, DraftOfBase', doings' \in 0..MaxDoings,
           mutation' \in [CallIds -> MutationCall],
           \A c \in CallIds : mutation[c].stage = "ok" => mutation'[c].stage = "ok"
    PROVE  DialogInv'
BY DEF DialogInv, DialogTypeOK, WillShow

LEMMA DoingCounts == ASSUME DialogInv, Doing PROVE doings' \in 0..MaxDoings
BY DialogAssumption DEF DialogInv, DialogTypeOK, Doing

LEMMA DisownedAreCalls ==
    ASSUME DialogInv
    PROVE  Disowned \in [CallIds -> MutationCall] /\ \A c \in CallIds : Disowned[c].stage = mutation[c].stage
BY NoCallIsCall, CallChanges DEF DialogInv, DialogTypeOK, Disowned

LEMMA NothingOpen == NoPanel \in Panel /\ NoDraft \in Draft /\ ~NoDraft.adding
BY DEF NoPanel, Panel, NoDraft, Draft, PromptVersion, Texts

\* A fetch that is asked for, and one that is not needed for the dialog to open.
LEMMA AskedAnew == ASSUME Refetch PROVE asking' \in Fetch /\ drifted' \in BOOLEAN /\ WillShow'
<1>1. asking' = [stage |-> "asked"] /\ drifted' = FALSE
  BY DEF Refetch
<1>2. asking' \in Fetch
  BY <1>1 DEF Fetch
<1>3. QED
  BY <1>1, <1>2 DEF WillShow

LEMMA AskingKeeps ==
    ASSUME DialogInv, RefetchIfIdle, UNCHANGED <<detail, fetched, mutation>>
    PROVE  asking' \in Fetch /\ drifted' \in BOOLEAN /\ WillShow'
<1>1. CASE UNCHANGED <<asking, drifted>>
  BY <1>1 DEF DialogInv, DialogTypeOK, WillShow
<1>2. QED
  BY <1>1, AskedAnew DEF RefetchIfIdle

\* The fetch.
LEMMA QueryKeeps ==
    ASSUME DialogInv,
           OpenDetail \/ CloseDetail \/ Refocus \/ ReadDetail \/ FetchFails \/ LandDetail \/ ForgetDetail
    PROVE  DialogInv'
<1>0. DialogTypeOK /\ WillShow /\ DraftOfBase
  BY DEF DialogInv
<1>1. CASE OpenDetail
  <2>1. panel' \in Panel
    BY <1>0, <1>1 DEF OpenDetail, DialogTypeOK, Panel, Detail
  <2>2. asking' \in Fetch /\ drifted' \in BOOLEAN
    BY <1>1, AskingKeeps DEF OpenDetail
  <2>3. WillShow'
    BY <1>1, AskingKeeps DEF OpenDetail
  <2>4. QED
    BY <1>0, <1>1, <2>1, <2>2, <2>3 DEF OpenDetail, DialogInv, DialogTypeOK, DraftOfBase
<1>2. CASE CloseDetail
  BY <1>0, <1>2, NothingOpen, DisownedAreCalls, EditorStep DEF CloseDetail, Unmount, DraftOfBase, DialogTypeOK
<1>3. CASE Refocus
  <2>1. asking' \in Fetch /\ drifted' \in BOOLEAN
    BY <1>3, AskingKeeps DEF Refocus
  <2>2. WillShow'
    BY <1>3, AskingKeeps DEF Refocus
  <2>3. QED
    BY <1>0, <1>3, <2>1, <2>2 DEF Refocus, DialogInv, DialogTypeOK, DraftOfBase
<1>4. CASE ReadDetail
  <2>1. asking' \in Fetch /\ WillShow'
    BY <1>0, <1>4 DEF ReadDetail, DialogTypeOK, Fetch, WillShow
  <2>2. QED
    BY <1>0, <1>4, <2>1 DEF ReadDetail, DialogInv, DialogTypeOK, DraftOfBase
<1>5. CASE FetchFails
  BY <1>0, <1>5 DEF FetchFails, NoFetch, Fetch, DialogInv, DialogTypeOK, DraftOfBase, WillShow
<1>6. CASE LandDetail
  <2>1. asking.data \in Detail /\ asking' = NoFetch /\ asking' \in Fetch /\ fetched' = asking.data
    BY <1>0, <1>6 DEF LandDetail, DialogTypeOK, Fetch, NoFetch
  <2>2. panel' \in Panel
    BY <1>0, <1>6, <2>1 DEF LandDetail, DialogTypeOK, Panel, Detail
  <2>3. WillShow'
    BY <1>0, <1>6, <2>1 DEF LandDetail, WillShow, NoFetch
  <2>4. QED
    BY <1>0, <1>6, <2>1, <2>2, <2>3 DEF LandDetail, DialogInv, DialogTypeOK, DraftOfBase
<1>7. CASE ForgetDetail
  BY <1>0, <1>7 DEF ForgetDetail, NoFetch, DialogInv, DialogTypeOK, DraftOfBase, WillShow
<1>8. QED
  BY <1>1, <1>2, <1>3, <1>4, <1>5, <1>6, <1>7

LEMMA DraftChanges ==
    ASSUME NEW d \in Draft, NEW e,
           \/ e = [d EXCEPT !.content = "ours", !.typed = @ \cup {"content"}]
           \/ e = [d EXCEPT !.variables = "ours", !.typed = @ \cup {"variables"}]
           \/ e = [d EXCEPT !.adding = FALSE]
    PROVE  /\ e \in Draft /\ e.base = d.base /\ (e.adding => d.adding)
           /\ d.typed \subseteq e.typed
           /\ e.content = d.content \/ "content" \in e.typed
           /\ e.variables = d.variables \/ "variables" \in e.typed
<1>1. CASE e = [d EXCEPT !.content = "ours", !.typed = @ \cup {"content"}]
  BY <1>1 DEF Draft, Texts
<1>2. CASE e = [d EXCEPT !.variables = "ours", !.typed = @ \cup {"variables"}]
  BY <1>2 DEF Draft, Texts
<1>3. CASE e = [d EXCEPT !.adding = FALSE]
  BY <1>3 DEF Draft
<1>4. QED
  BY <1>1, <1>2, <1>3

\* The user's edits.
LEMMA EditKeeps ==
    ASSUME DialogInv,
           \/ \E editing \in BOOLEAN : EditMeta(editing)
           \/ TypeMeta \/ OpenDraft \/ TypeContent \/ TypeVariables \/ CancelDraft
    PROVE  DialogInv'
<1>0. DialogTypeOK /\ DraftOfBase
  BY DEF DialogInv
<1>1. UNCHANGED <<detail, fetched, asking, drifted, mutation>> /\ doings' \in 0..MaxDoings
  BY DoingCounts DEF EditMeta, TypeMeta, OpenDraft, TypeContent, TypeVariables, CancelDraft
<1>2. panel' \in Panel
  BY <1>0 DEF EditMeta, TypeMeta, OpenDraft, TypeContent, TypeVariables, CancelDraft, DialogTypeOK, Panel, Texts
<1>3. draft' \in Draft /\ DraftOfBase'
  <2>1. CASE OpenDraft
    <3>1. Newest(fetched) \in PromptVersion
      BY <1>0, <2>1, VersionsOf DEF OpenDraft, Loaded, DialogTypeOK
    <3>2. QED
      BY <2>1, <3>1 DEF OpenDraft, Draft, DraftOfBase, PromptVersion
  <2>2. CASE TypeContent \/ TypeVariables \/ CancelDraft
    <3>1. draft' = [draft EXCEPT !.content = "ours", !.typed = @ \cup {"content"}]
          \/ draft' = [draft EXCEPT !.variables = "ours", !.typed = @ \cup {"variables"}]
          \/ draft' = [draft EXCEPT !.adding = FALSE]
      BY <2>2 DEF TypeContent, TypeVariables, CancelDraft
    <3>2. draft \in Draft /\ DraftOfBase
      BY <1>0 DEF DialogTypeOK
    <3>3. /\ draft' \in Draft /\ draft'.base = draft.base /\ (draft'.adding => draft.adding)
          /\ draft.typed \subseteq draft'.typed
          /\ draft'.content = draft.content \/ "content" \in draft'.typed
          /\ draft'.variables = draft.variables \/ "variables" \in draft'.typed
      BY <3>1, <3>2, DraftChanges
    <3>4. QED
      BY <3>2, <3>3 DEF DraftOfBase
  <2>3. CASE UNCHANGED draft
    BY <1>0, <2>3 DEF DialogTypeOK, DraftOfBase
  <2>4. QED
    BY <2>1, <2>2, <2>3 DEF EditMeta, TypeMeta
<1>4. QED
  BY <1>0, <1>1, <1>2, <1>3, EditorStep DEF DialogTypeOK

\* A call that is sent.
LEMMA SendKeeps ==
    ASSUME DialogInv, NEW c \in CallIds, NEW m, NEW body, Send(c, m, body),
           [stage |-> "sent", own |-> TRUE, of |-> m, body |-> body] \in MutationCall
    PROVE  DialogInv'
<1>1. /\ mutation' \in [CallIds -> MutationCall]
      /\ \A d \in CallIds : mutation[d].stage = "ok" => mutation'[d].stage = "ok"
  BY NoCallIsCall DEF DialogInv, DialogTypeOK, Send
<1>2. QED
  BY <1>1, DoingCounts, EditorStep DEF DialogInv, DialogTypeOK, Send, DraftOfBase

LEMMA ButtonsSend ==
    ASSUME DialogInv, NEW c \in CallIds,
           \/ SaveMeta(c) \/ SaveVersion(c) \/ ToggleFavorite(c) \/ DeletePrompt(c)
           \/ \E i \in 1..MaxHistory : RestoreVersion(c, i)
    PROVE  DialogInv'
<1>0. DialogTypeOK
  BY DEF DialogInv
<1>1. CASE SaveMeta(c)
  <2>1. panel.meta \in Texts
    BY <1>0, <1>1 DEF SaveMeta, DialogTypeOK, Panel
  <2>2. [stage |-> "sent", own |-> TRUE, of |-> "meta", body |-> panel.meta] \in MutationCall
    BY <2>1 DEF MutationCall, CallOf
  <2>3. QED
    BY <1>1, <2>2, SendKeeps DEF SaveMeta
<1>2. CASE SaveVersion(c)
  <2>1. [content |-> draft.content, variables |-> draft.variables] \in PromptVersion
    BY <1>0, <1>2 DEF SaveVersion, DialogTypeOK, Draft, PromptVersion
  <2>2. [stage |-> "sent", own |-> TRUE, of |-> "version",
         body |-> [content |-> draft.content, variables |-> draft.variables]] \in MutationCall
    BY <2>1 DEF MutationCall, CallOf
  <2>3. QED
    BY <1>2, <2>2, SendKeeps DEF SaveVersion
<1>3. CASE ToggleFavorite(c)
  <2>1. [stage |-> "sent", own |-> TRUE, of |-> "favorite", body |-> ~fetched.favorite] \in MutationCall
    BY <1>0, <1>3 DEF MutationCall, CallOf
  <2>2. QED
    BY <1>3, <2>1, SendKeeps DEF ToggleFavorite
<1>4. CASE DeletePrompt(c)
  <2>1. [stage |-> "sent", own |-> TRUE, of |-> "delete", body |-> FALSE] \in MutationCall
    BY DEF MutationCall, CallOf
  <2>2. QED
    BY <1>4, <2>1, SendKeeps DEF DeletePrompt
<1>5. ASSUME NEW i \in 1..MaxHistory, RestoreVersion(c, i) PROVE DialogInv'
  <2>1. fetched \in Detail /\ i \in 1..Len(fetched.versions)
    BY <1>0, <1>5, DialogAssumption DEF RestoreVersion, DialogTypeOK, Detail, Histories
  <2>2. fetched.versions[i] \in PromptVersion
    BY <2>1, VersionsOf
  <2>3. [stage |-> "sent", own |-> TRUE, of |-> "restore", body |-> fetched.versions[i]] \in MutationCall
    BY <2>2 DEF MutationCall, CallOf
  <2>4. QED
    BY <1>5, <2>3, SendKeeps DEF RestoreVersion
<1>6. QED
  BY <1>1, <1>2, <1>3, <1>4, <1>5

\* What the API writes is a prompt.
LEMMA WrittenFits ==
    ASSUME NEW of \in {"meta", "version", "restore", "favorite", "delete"}, NEW body,
           of = "meta" => body \in Texts,
           of \in {"version", "restore"} => body \in PromptVersion /\ Len(detail.versions) < MaxHistory,
           of \in {"favorite", "delete"} => body \in BOOLEAN,
           detail \in Detail
    PROVE  Written(of, body) \in Detail
<1>0. "first" \in Texts /\ TRUE \in BOOLEAN /\ [content |-> "first", variables |-> "first"] \in PromptVersion
  BY DEF Texts, PromptVersion
<1>1. CASE of = "meta"
  <2>1. Written(of, body) = [detail EXCEPT !.meta = body]
    BY <1>1 DEF Written
  <2>2. QED
    BY <1>0, <1>1, <2>1, DetailChanges
<1>2. CASE of \in {"version", "restore"}
  <2>1. Written(of, body) = [detail EXCEPT !.versions = Append(@, body)]
    BY <1>2, Zenon DEF Written
  <2>2. QED
    BY <1>0, <1>2, <2>1, DetailChanges
<1>3. CASE of = "favorite"
  <2>1. Written(of, body) = [detail EXCEPT !.favorite = body]
    BY <1>3 DEF Written
  <2>2. QED
    BY <1>0, <1>3, <2>1, DetailChanges
<1>4. CASE of = "delete"
  <2>1. Written(of, body) = [detail EXCEPT !.there = FALSE]
    BY <1>4 DEF Written
  <2>2. QED
    BY <1>0, <2>1, DetailChanges
<1>5. QED
  BY <1>1, <1>2, <1>3, <1>4

LEMMA WrittenIsDetail ==
    ASSUME DialogInv, NEW c \in CallIds, WriteMutation(c)
    PROVE  detail' \in Detail
<1>1. mutation[c] \in MutationCall /\ mutation[c] # NoCall /\ detail \in Detail
  BY NoCallIsCall DEF DialogInv, DialogTypeOK, WriteMutation
<1>2. /\ mutation[c].of = "meta" => mutation[c].body \in Texts
      /\ mutation[c].of \in {"version", "restore"} => mutation[c].body \in PromptVersion
      /\ mutation[c].of \in {"favorite", "delete"} => mutation[c].body \in BOOLEAN
      /\ mutation[c].of \in {"meta", "version", "restore", "favorite", "delete"}
  BY <1>1, CallChanges
<1>3. /\ detail' = Written(mutation[c].of, mutation[c].body)
      /\ mutation[c].of \in {"version", "restore"} => Len(detail.versions) < MaxHistory
  BY DEF WriteMutation
<1>4. QED
  BY <1>1, <1>2, <1>3, WrittenFits

LEMMA AnswerKeeps ==
    ASSUME DialogInv, NEW c \in CallIds, WriteMutation(c) \/ Turned(c) \/ MutationFails(c)
    PROVE  DialogInv'
<1>0. DialogTypeOK /\ WillShow /\ DraftOfBase
  BY DEF DialogInv
<1>1. mutation[c] \in MutationCall /\ mutation[c] # NoCall
  BY <1>0, NoCallIsCall DEF DialogTypeOK, WriteMutation, Turned, MutationFails
<1>2. CASE WriteMutation(c)
  <2>1. \E t \in {"ok", "failed"} : Replied(c, t) /\ (t = "ok" \/ drifted')
    BY <1>2 DEF WriteMutation
  <2>2. PICK t \in {"ok", "failed"} : Replied(c, t) /\ (t = "ok" \/ drifted')
    BY <2>1
  <2>3. mutation' \in [CallIds -> MutationCall] /\ mutation'[c].stage = t
    <3>0. t \in {"sent", "ok", "failed"}
      BY <2>2
    <3>1. [mutation[c] EXCEPT !.stage = t] \in MutationCall /\ [mutation[c] EXCEPT !.stage = t].stage = t
      BY <1>1, <3>0, CallChanges
    <3>2. QED
      BY <1>0, <2>2, <3>1 DEF Replied, DialogTypeOK
  <2>4. drifted' \in BOOLEAN
    BY <1>0, <1>2 DEF WriteMutation, DialogTypeOK
  <2>5. WillShow'
    BY <2>2, <2>3 DEF WillShow
  <2>6. QED
    BY <1>0, <1>2, <2>3, <2>4, <2>5, WrittenIsDetail DEF WriteMutation, DialogInv, DialogTypeOK, DraftOfBase
<1>3. CASE Turned(c)
  <2>1. mutation' \in [CallIds -> MutationCall] /\ \A d \in CallIds : mutation[d].stage = "ok" => mutation'[d].stage = "ok"
    BY <1>0, <1>1, <1>3, CallChanges DEF Turned, Replied, DialogTypeOK
  <2>2. QED
    BY <1>0, <1>3, <2>1, EditorStep DEF Turned, DialogTypeOK, DraftOfBase
<1>4. CASE MutationFails(c)
  <2>1. mutation' \in [CallIds -> MutationCall] /\ \A d \in CallIds : mutation[d].stage = "ok" => mutation'[d].stage = "ok"
    BY <1>0, <1>1, <1>4, NoCallIsCall DEF MutationFails, DialogTypeOK
  <2>2. QED
    BY <1>0, <1>4, <2>1, EditorStep DEF MutationFails, DialogTypeOK, DraftOfBase
<1>5. QED
  BY <1>2, <1>3, <1>4

\* A call that succeeded has the dialog ask again, or leaves it drifted.
LEMMA InvalidateShows ==
    ASSUME DialogInv, Invalidate
    PROVE  asking' \in Fetch /\ drifted' \in BOOLEAN /\ WillShow'
<1>1. CASE UNCHANGED asking /\ drifted' = TRUE
  BY <1>1 DEF DialogInv, DialogTypeOK, WillShow
<1>2. QED
  BY <1>1, AskedAnew DEF Invalidate

LEMMA SuccessKeeps ==
    ASSUME DialogInv, NEW c \in CallIds, MutationSucceeds(c) \/ DeletionSucceeds(c)
    PROVE  DialogInv'
<1>0. DialogTypeOK /\ DraftOfBase
  BY DEF DialogInv
<1>1. CASE MutationSucceeds(c)
  <2>1. mutation' \in [CallIds -> MutationCall]
    BY <1>0, <1>1, NoCallIsCall DEF MutationSucceeds, DialogTypeOK
  <2>2. panel' \in Panel
    BY <1>0, <1>1 DEF MutationSucceeds, DialogTypeOK, Panel
  <2>3. draft' \in Draft /\ DraftOfBase'
    BY <1>0, <1>1 DEF MutationSucceeds, DialogTypeOK, Draft, DraftOfBase
  <2>4. asking' \in Fetch /\ drifted' \in BOOLEAN /\ WillShow'
    BY <1>1, InvalidateShows DEF MutationSucceeds
  <2>5. QED
    BY <1>0, <1>1, <2>1, <2>2, <2>3, <2>4 DEF MutationSucceeds, DialogInv, DialogTypeOK
<1>2. CASE DeletionSucceeds(c)
  <2>1. mutation' \in [CallIds -> MutationCall]
    BY <1>2, NoCallIsCall, DisownedAreCalls DEF DeletionSucceeds
  <2>2. asking' \in Fetch /\ drifted' \in BOOLEAN /\ WillShow'
    BY <1>2, InvalidateShows DEF DeletionSucceeds
  <2>3. QED
    BY <1>0, <1>2, <2>1, <2>2, NothingOpen DEF DeletionSucceeds, Unmount, DialogInv, DialogTypeOK, DraftOfBase
<1>3. QED
  BY <1>1, <1>2

LEMMA OthersKeep == ASSUME DialogInv, OthersWrite PROVE DialogInv'
<1>0. DialogTypeOK /\ DraftOfBase
  BY DEF DialogInv
<1>1. "theirs" \in Texts /\ [content |-> "theirs", variables |-> "theirs"] \in PromptVersion
  BY DEF Texts, PromptVersion
<1>2. detail' \in Detail
  BY <1>0, <1>1, WrittenFits DEF OthersWrite, DialogTypeOK
<1>3. QED
  BY <1>0, <1>2, DoingCounts DEF OthersWrite, DialogInv, DialogTypeOK, DraftOfBase, WillShow

LEMMA DialogStep == DialogInv /\ [DialogNext]_dialogVars => DialogInv'
<1> SUFFICES ASSUME DialogInv, [DialogNext]_dialogVars PROVE DialogInv'
  OBVIOUS
<1>1. CASE UNCHANGED dialogVars
  BY <1>1 DEF dialogVars, DialogInv, DialogTypeOK, WillShow, DraftOfBase
<1>2. CASE \E c \in CallIds :
              \/ SaveMeta(c) \/ SaveVersion(c) \/ ToggleFavorite(c) \/ DeletePrompt(c)
              \/ \E i \in 1..MaxHistory : RestoreVersion(c, i)
  BY <1>2, ButtonsSend
<1>3. CASE \E c \in CallIds :
              WriteMutation(c) \/ Turned(c) \/ MutationSucceeds(c) \/ DeletionSucceeds(c) \/ MutationFails(c)
  BY <1>3, AnswerKeeps, SuccessKeeps
<1>4. QED
  BY <1>1, <1>2, <1>3, QueryKeeps, EditKeeps, OthersKeep DEF DialogNext

\* Once its calls are answered and no change is unfetched, the dialog shows the prompt as
\* it is stored: every mutation has its fetch, however calls, fetches, closing and
\* opening interleave.
THEOREM DialogCatchesUp == DialogSpec => []SettledShowsStored
<1>1. DialogInv => SettledShowsStored
  <2> SUFFICES ASSUME DialogInv, Settled PROVE fetched = detail
    BY DEF SettledShowsStored
  <2>1. \A c \in CallIds : mutation[c].stage # "ok"
    BY NoCallIsCall DEF Settled
  <2>2. QED
    BY <2>1 DEF DialogInv, WillShow, Settled, Loaded, NoFetch
<1>2. QED
  BY DialogInitially, DialogStep, <1>1, PTL DEF DialogSpec

\* A version that is saved does not mix what nobody typed of two versions.
THEOREM DraftsAreWhole == DialogSpec => DraftKeepsOneVersion
<1> DEFINE KeepsOne == \A c \in CallIds : mutation[c] = NoCall /\ mutation'[c] # NoCall /\ mutation'[c].of = "version" =>
                        /\ "content" \in draft.typed \/ mutation'[c].body.content = draft.base.content
                        /\ "variables" \in draft.typed \/ mutation'[c].body.variables = draft.base.variables
<1>1. ASSUME DialogInv, DialogNext PROVE KeepsOne
  <2> SUFFICES ASSUME NEW c \in CallIds, mutation[c] = NoCall, mutation'[c] # NoCall, mutation'[c].of = "version"
               PROVE  /\ "content" \in draft.typed \/ mutation'[c].body.content = draft.base.content
                      /\ "variables" \in draft.typed \/ mutation'[c].body.variables = draft.base.variables
    OBVIOUS
  <2>0. mutation \in [CallIds -> MutationCall] /\ DraftOfBase
    BY <1>1 DEF DialogInv, DialogTypeOK
  <2>1. /\ \A d \in CallIds : \A m, body : Send(d, m, body) =>
              d = c /\ m = "version" /\ mutation'[c].body = body
        /\ mutation'[c] = mutation[c] => FALSE
    BY <2>0 DEF Send
  <2>2. CASE \E d \in CallIds : SaveVersion(d)
    <3>1. draft.adding /\ mutation'[c].body = [content |-> draft.content, variables |-> draft.variables]
      BY <2>1, <2>2 DEF SaveVersion
    <3>2. QED
      BY <2>0, <3>1 DEF DraftOfBase
  <2>3. CASE \E d \in CallIds : \/ SaveMeta(d) \/ ToggleFavorite(d) \/ DeletePrompt(d)
                                \/ \E i \in 1..MaxHistory : RestoreVersion(d, i)
    <3>1. \E d \in CallIds, m \in {"meta", "favorite", "delete", "restore"} : \E body : Send(d, m, body)
      BY <2>3 DEF SaveMeta, ToggleFavorite, DeletePrompt, RestoreVersion
    <3>2. QED
      BY <2>1, <3>1
  <2>4. CASE \E d \in CallIds : WriteMutation(d) \/ Turned(d)
    <3>1. PICK d \in CallIds, t \in {"ok", "failed"} : Replied(d, t) /\ mutation[d].stage = "sent"
      BY <2>4 DEF WriteMutation, Turned
    <3>2. d # c
      BY <3>1, NoCallIsCall
    <3>3. QED
      BY <2>0, <2>1, <3>1, <3>2 DEF Replied
  <2>5. CASE \E d \in CallIds : MutationSucceeds(d) \/ DeletionSucceeds(d) \/ MutationFails(d)
    <3>1. PICK d \in CallIds : mutation' \in {[mutation EXCEPT ![d] = NoCall], [Disowned EXCEPT ![d] = NoCall]}
      BY <2>5 DEF MutationSucceeds, DeletionSucceeds, MutationFails
    <3>2. QED
      BY <2>0, <3>1 DEF Disowned
  <2>6. CASE CloseDetail
    BY <2>6 DEF CloseDetail, Disowned
  <2>7. CASE UNCHANGED mutation
    BY <2>1, <2>7
  <2>8. QED
    BY <1>1, <2>2, <2>3, <2>4, <2>5, <2>6, <2>7 DEF DialogNext, OpenDetail, Refocus, ReadDetail, FetchFails, LandDetail,
       ForgetDetail, EditMeta, TypeMeta, OpenDraft, TypeContent, TypeVariables, CancelDraft, OthersWrite
<1>2. DialogInv /\ [DialogNext]_dialogVars => [KeepsOne]_dialogVars
  BY <1>1
<1>3. QED
  BY DialogInitially, DialogStep, <1>2, PTL DEF DialogSpec, DraftKeepsOneVersion

-----------------------------------------------------------------------------
(***************************************************************************)
(* The text of a run: every function against its reference, for texts of   *)
(* any length over any lines, and any names, budgets and phrases. The ones *)
(* that go over a text step by step keep, after each step, what the        *)
(* reference says of the part they have seen.                              *)
(***************************************************************************)

\* longestConsecutiveRepeat. A stretch of n equal lines from j on; how far the one that ends
\* at i goes back; and the longest one up to i.
Stretch(s, j, n) == \A k \in j..(j + n - 1) : s[k] = s[j]
BackTo(s, i, c) == c \in 1..i /\ Stretch(s, i - c + 1, c) /\ (c = i \/ s[i - c] # s[i])
LongestTo(s, i, b) ==
    /\ b \in 1..i /\ \E j \in 1..(i - b + 1) : Stretch(s, j, b)
    /\ \A n \in 1..i : \A j \in 1..(i - n + 1) : Stretch(s, j, n) => n <= b

LEMMA LargerOfTwo == \A a, b \in Nat : Max({a, b}) = IF a >= b THEN a ELSE b
BY DEF Max

LEMMA StretchGrows ==
    ASSUME NEW s, NEW i \in Nat \ {0}, NEW c \in Nat, NEW b \in Nat, BackTo(s, i, c), LongestTo(s, i, b)
    PROVE  /\ BackTo(s, i + 1, Lengthen(s, i + 1, <<c, b>>)[1])
           /\ LongestTo(s, i + 1, Lengthen(s, i + 1, <<c, b>>)[2])
<1>1. CASE s[i + 1] = s[i]
  <2>1. Lengthen(s, i + 1, <<c, b>>) = <<c + 1, IF b >= c + 1 THEN b ELSE c + 1>>
    BY <1>1, LargerOfTwo DEF Lengthen
  <2>2. c \in 1..i /\ (\A k \in (i - c + 1)..i : s[k] = s[i - c + 1]) /\ (c = i \/ s[i - c] # s[i])
    BY DEF BackTo, Stretch
  <2>3. s[i - c + 1] = s[i]
    BY <2>2
  <2>4. \A k \in (i + 1 - c)..(i + 1) : s[k] = s[i + 1]
    BY <1>1, <2>2, <2>3
  <2>5. Stretch(s, i + 1 - c, c + 1)
    BY <2>2, <2>4 DEF Stretch
  <2>6. BackTo(s, i + 1, c + 1)
    BY <1>1, <2>2, <2>5 DEF BackTo
  <2>7. ASSUME NEW n \in 1..(i + 1), NEW j \in 1..(i + 1 - n + 1), Stretch(s, j, n)
        PROVE  n <= b \/ n <= c + 1
    <3>1. CASE j + n - 1 <= i
      BY <2>7, <3>1 DEF LongestTo
    <3>2. CASE j + n - 1 = i + 1
      <4> SUFFICES ASSUME n > c + 1 PROVE FALSE
        OBVIOUS
      <4>1. i - c \in j..(j + n - 1) /\ i \in j..(j + n - 1) /\ c # i
        BY <2>2, <3>2
      <4>2. s[i - c] = s[j] /\ s[i] = s[j]
        BY <2>7, <4>1 DEF Stretch
      <4> QED
        BY <2>2, <4>1, <4>2
    <3> QED
      BY <3>1, <3>2
  <2>8. b \in 1..i /\ \E j \in 1..(i - b + 1) : Stretch(s, j, b)
    BY DEF LongestTo
  <2>9. LongestTo(s, i + 1, IF b >= c + 1 THEN b ELSE c + 1)
    BY <2>2, <2>5, <2>7, <2>8 DEF LongestTo
  <2> QED
    BY <2>1, <2>6, <2>9
<1>2. CASE s[i + 1] # s[i]
  <2>1. Lengthen(s, i + 1, <<c, b>>) = <<1, b>>
    BY <1>2 DEF Lengthen
  <2>2. BackTo(s, i + 1, 1)
    BY <1>2 DEF BackTo, Stretch
  <2>3. b \in 1..i /\ \E j \in 1..(i - b + 1) : Stretch(s, j, b)
    BY DEF LongestTo
  <2>4. ASSUME NEW n \in 1..(i + 1), NEW j \in 1..(i + 1 - n + 1), Stretch(s, j, n)
        PROVE  n <= b
    <3>1. CASE j + n - 1 <= i
      BY <2>4, <3>1 DEF LongestTo
    <3>2. CASE j + n - 1 = i + 1 /\ n > 1
      <4>1. i \in j..(j + n - 1) /\ i + 1 \in j..(j + n - 1)
        BY <3>2
      <4> QED
        BY <1>2, <2>4, <4>1 DEF Stretch
    <3> QED
      BY <2>3, <3>1, <3>2
  <2>5. LongestTo(s, i + 1, b)
    BY <2>3, <2>4 DEF LongestTo
  <2> QED
    BY <2>1, <2>2, <2>5
<1> QED
  BY <1>1, <1>2

LEMMA LongestIsLongest ==
    ASSUME NEW s \in Seq(Lines), s # << >>
    PROVE  LongestRepeat(s) = Max(Stretches(s))
<1>0. Len(s) \in Nat \ {0} /\ Len(s) - 1 \in Nat /\ (Len(s) - 1) + 1 = Len(s) /\ Len(s) - 1 < Len(s)
  OBVIOUS
<1> DEFINE V == Nat \X Nat
           G == [p \in Nat \X V |-> Lengthen(s, p[1] + 2, p[2])]
           Pass(f) == f = [i \in 1..Len(s) |-> IF i = 1 THEN <<1, 1>> ELSE Lengthen(s, i, f[i - 1])]
<1>1. \A i \in Nat, v \in V : Lengthen(s, i, v) \in V
  BY LargerOfTwo DEF Lengthen
<1>2. G \in [Nat \X V -> V] /\ <<1, 1>> \in V /\ \A k \in Nat, v \in V : G[<<k, v>>] = Lengthen(s, k + 2, v)
  BY <1>1
<1>3. PICK h \in [Nat -> V] : Recurs(h, <<1, 1>>, G)
  <2> HIDE DEF V, G
  <2> QED
    BY <1>2, Recursion
<1> HIDE DEF G
<1>4. h[0] = <<1, 1>> /\ \A k \in Nat : h[k + 1] = Lengthen(s, k + 2, h[k])
  BY <1>2, <1>3 DEF Recurs
<1> DEFINE g == [i \in 1..Len(s) |-> h[i - 1]]
<1>5. \A i \in 1..Len(s) : i # 1 => h[i - 1] = Lengthen(s, i, h[i - 2])
  <2> TAKE i \in 1..Len(s)
  <2>1. i # 1 => i - 2 \in Nat /\ (i - 2) + 1 = i - 1 /\ (i - 2) + 2 = i
    BY <1>0
  <2> QED
    BY <1>4, <2>1
<1>6. Pass(g)
  <2> SUFFICES ASSUME NEW i \in 1..Len(s)
               PROVE  g[i] = IF i = 1 THEN <<1, 1>> ELSE Lengthen(s, i, g[i - 1])
    OBVIOUS
  <2>1. CASE i = 1
    BY <1>4, <2>1
  <2>2. CASE i # 1
    <3>1. i - 1 \in 1..Len(s) /\ g[i - 1] = h[(i - 1) - 1] /\ (i - 1) - 1 = i - 2
      BY <1>0, <2>2
    <3> QED
      BY <1>5, <2>2, <3>1
  <2> QED
    BY <2>1, <2>2
<1> DEFINE loop == CHOOSE f : Pass(f)
<1>7. Pass(loop)
  <2> HIDE DEF g, Pass
  <2> QED
    BY <1>6
<1>8. LongestRepeat(s) = loop[Len(s)][2]
  BY Zenon DEF LongestRepeat
<1> HIDE DEF loop
<1>9. loop[1] = <<1, 1>> /\ \A i \in 1..Len(s) : i # 1 => loop[i] = Lengthen(s, i, loop[i - 1])
  <2>1. loop = [i \in 1..Len(s) |-> IF i = 1 THEN <<1, 1>> ELSE Lengthen(s, i, loop[i - 1])]
    BY <1>7
  <2> HIDE DEF Pass
  <2>2. \A i \in 1..Len(s) : loop[i] = IF i = 1 THEN <<1, 1>> ELSE Lengthen(s, i, loop[i - 1])
    BY <2>1, Zenon
  <2>3. 1 \in 1..Len(s)
    BY <1>0
  <2> QED
    BY <2>2, <2>3
<1> HIDE DEF Pass
<1> DEFINE Kept == {k \in Nat : k < Len(s) => /\ loop[k + 1] \in V
                                              /\ BackTo(s, k + 1, loop[k + 1][1])
                                              /\ LongestTo(s, k + 1, loop[k + 1][2])}
<1>10. 0 \in Kept
  <2>1. BackTo(s, 1, 1) /\ LongestTo(s, 1, 1)
    BY DEF BackTo, LongestTo, Stretch
  <2> QED
    <3>0. 0 + 1 = 1
      OBVIOUS
    <3>1. loop[0 + 1] = <<1, 1>>
      BY <1>9, <3>0, Zenon
    <3>2. <<1, 1>> \in V
      OBVIOUS
    <3>3. loop[0 + 1] \in V /\ loop[0 + 1][1] = 1 /\ loop[0 + 1][2] = 1
      BY <3>1, <3>2
    <3> HIDE DEF V
    <3> QED
      BY <2>1, <3>0, <3>3
<1>11. ASSUME NEW k \in Nat, k \in Kept PROVE k + 1 \in Kept
  <2>0. k + 1 \in Nat /\ (k + 1) + 1 = k + 2
    OBVIOUS
  <2> SUFFICES ASSUME k + 1 < Len(s)
               PROVE  /\ loop[k + 2] \in V
                      /\ BackTo(s, k + 2, loop[k + 2][1])
                      /\ LongestTo(s, k + 2, loop[k + 2][2])
    BY <2>0
  <2>1. loop[k + 2] = Lengthen(s, k + 2, loop[k + 1])
    <3>1. k + 2 \in 1..Len(s) /\ k + 2 # 1 /\ (k + 2) - 1 = k + 1
      BY <1>0
    <3> QED
      BY <1>9, <3>1
  <2>2. loop[k + 1] \in V /\ BackTo(s, k + 1, loop[k + 1][1]) /\ LongestTo(s, k + 1, loop[k + 1][2])
    BY <1>0, <1>11
  <2>3. PICK c \in Nat, b \in Nat : loop[k + 1] = <<c, b>>
    <3> DEFINE v == loop[k + 1]
    <3>1. v \in Nat \X Nat
      BY <2>2
    <3> HIDE DEF v
    <3>2. v[1] \in Nat /\ v[2] \in Nat /\ v = <<v[1], v[2]>>
      BY <3>1
    <3> QED
      BY <3>2 DEF v
  <2>4. BackTo(s, k + 1, c) /\ LongestTo(s, k + 1, b)
    BY <2>2, <2>3
  <2>5. BackTo(s, k + 2, Lengthen(s, k + 2, <<c, b>>)[1]) /\ LongestTo(s, k + 2, Lengthen(s, k + 2, <<c, b>>)[2])
    <3>1. k + 1 \in Nat \ {0} /\ (k + 1) + 1 = k + 2
      OBVIOUS
    <3> QED
      BY <2>4, <3>1, StretchGrows
  <2> QED
    BY <1>1, <2>1, <2>2, <2>3, <2>5
<1>12. \A k \in Nat : k \in Kept
  <2> HIDE DEF Kept
  <2> QED
    BY <1>10, <1>11, EveryNumber
<1> DEFINE b == loop[Len(s)][2]
<1>13. LongestTo(s, Len(s), b)
  <2>1. Len(s) - 1 \in Kept
    BY <1>0, <1>12
  <2> QED
    BY <1>0, <2>1
<1> HIDE DEF b
<1>14. b \in Stretches(s) /\ \A n \in Stretches(s) : n <= b
  BY <1>0, <1>13 DEF LongestTo, Stretch, Stretches
<1>15. \A n \in Stretches(s) : n \in Nat
  BY DEF Stretches
<1>16. b = Max(Stretches(s))
  BY <1>14, <1>15 DEF Max
<1> QED
  BY <1>8, <1>16 DEF b

\* detectRepetition's phrases: what repeats is what there is, less what is different.
Seen(s, i) == {Phrase(s, j) : j \in 1..i}
CountedTo(s, i, v) == v.phrases = Seen(s, i) /\ v.repeats = i - Cardinality(Seen(s, i))

LEMMA SeenGrows ==
    ASSUME NEW s, NEW i \in Nat
    PROVE  /\ IsFiniteSet(Seen(s, i)) /\ Cardinality(Seen(s, i)) \in Nat
           /\ Seen(s, 0) = {} /\ Cardinality(Seen(s, 0)) = 0
           /\ Seen(s, i + 1) = Seen(s, i) \cup {Phrase(s, i + 1)}
           /\ Cardinality(Seen(s, i + 1)) = IF Phrase(s, i + 1) \in Seen(s, i) THEN Cardinality(Seen(s, i))
                                            ELSE Cardinality(Seen(s, i)) + 1
<1>1. IsFiniteSet(Seen(s, i))
  <2> DEFINE I == 1..i
             f == [j \in I |-> Phrase(s, j)]
  <2>1. IsFiniteSet(I)
    BY FS_Interval
  <2>2. \A y \in Seen(s, i) : \E x \in I : f[x] = y
    BY DEF Seen
  <2>3. f \in [I -> Seen(s, i)]
    BY DEF Seen
  <2>4. f \in Surjection(I, Seen(s, i))
    <3> HIDE DEF I, f
    <3> QED
      BY <2>2, <2>3 DEF Surjection
  <2> HIDE DEF I, f
  <2> QED
    BY <2>1, <2>4, FS_Surjection
<1>2. Seen(s, i + 1) = Seen(s, i) \cup {Phrase(s, i + 1)}
  <2>1. 1..(i + 1) = (1..i) \cup {i + 1}
    OBVIOUS
  <2> QED
    BY <2>1 DEF Seen
<1>3. Seen(s, 0) = {}
  <2>1. 1..0 = {}
    OBVIOUS
  <2> QED
    BY <2>1 DEF Seen
<1>4. Cardinality(Seen(s, i)) \in Nat /\ Cardinality(Seen(s, 0)) = 0
  BY <1>1, <1>3, FS_CardinalityType, FS_EmptySet
<1>5. Cardinality(Seen(s, i) \cup {Phrase(s, i + 1)})
        = IF Phrase(s, i + 1) \in Seen(s, i) THEN Cardinality(Seen(s, i)) ELSE Cardinality(Seen(s, i)) + 1
  BY <1>1, FS_AddElement
<1> QED
  BY <1>1, <1>2, <1>3, <1>4, <1>5

LEMMA CountGrows ==
    ASSUME NEW s, NEW i \in Nat, NEW v, v = [phrases |-> v.phrases, repeats |-> v.repeats], CountedTo(s, i, v)
    PROVE  CountedTo(s, i + 1, CountPhrase(s, i + 1, v))
<1> DEFINE known == Seen(s, i)
           card == Cardinality(known)
<1>1. v.phrases = known /\ v.repeats = i - card /\ card \in Nat
  BY SeenGrows DEF CountedTo
<1>2. Seen(s, i + 1) = known \cup {Phrase(s, i + 1)}
      /\ Cardinality(Seen(s, i + 1)) = IF Phrase(s, i + 1) \in known THEN card ELSE card + 1
  BY SeenGrows
<1> HIDE DEF known, card
<1>3. CountPhrase(s, i + 1, v).phrases = known \cup {Phrase(s, i + 1)}
      /\ CountPhrase(s, i + 1, v).repeats = (i - card) + IF Phrase(s, i + 1) \in known THEN 1 ELSE 0
  BY <1>1 DEF CountPhrase
<1>4. CASE Phrase(s, i + 1) \in known
  <2>1. (i - card) + 1 = (i + 1) - card
    BY <1>1
  <2> QED
    BY <1>2, <1>3, <1>4, <2>1 DEF CountedTo
<1>5. CASE Phrase(s, i + 1) \notin known
  <2>1. (i - card) + 0 = (i + 1) - (card + 1)
    BY <1>1
  <2> QED
    BY <1>2, <1>3, <1>5, <2>1 DEF CountedTo
<1> QED
  BY <1>4, <1>5

LEMMA PhrasesAreCounted ==
    ASSUME NEW s \in Seq(Lines), Len(s) >= 2 * GramSize
    PROVE  LET places == 1..(Len(s) - GramSize + 1) IN
           RepeatedPhrases(s) = Cardinality(places) - Cardinality({Phrase(s, i) : i \in places})
<1> DEFINE last == Len(s) - GramSize + 1
<1>0. last \in Nat /\ GramSize \in Nat /\ Len(s) \in Nat
  BY TextAssumption
<1>0a. Cardinality(1..last) = last
  BY <1>0, FS_Interval
<1> DEFINE V == [phrases : SUBSET {Phrase(s, j) : j \in Nat}, repeats : Nat]
           G == [p \in Nat \X V |-> CountPhrase(s, p[1] + 1, p[2])]
           none == [phrases |-> {}, repeats |-> 0]
           Pass(f) == f = [i \in 0..last |-> IF i = 0 THEN none ELSE CountPhrase(s, i, f[i - 1])]
<1>1. \A i \in Nat, v \in V : CountPhrase(s, i, v) \in V
  BY DEF CountPhrase
<1>2. G \in [Nat \X V -> V] /\ none \in V /\ \A k \in Nat, v \in V : G[<<k, v>>] = CountPhrase(s, k + 1, v)
  BY <1>1
<1>3. PICK h \in [Nat -> V] : Recurs(h, none, G)
  <2> HIDE DEF V, G, none
  <2> QED
    BY <1>2, Recursion
<1> HIDE DEF G
<1>4. h[0] = none /\ \A k \in Nat : h[k + 1] = CountPhrase(s, k + 1, h[k])
  BY <1>2, <1>3 DEF Recurs
<1> HIDE DEF V, none, last
<1> DEFINE g == [i \in 0..last |-> h[i]]
<1>5. Pass(g)
  <2> SUFFICES ASSUME NEW i \in 0..last
               PROVE  g[i] = IF i = 0 THEN none ELSE CountPhrase(s, i, g[i - 1])
    OBVIOUS
  <2>1. CASE i = 0
    BY <1>4, <2>1
  <2>2. CASE i # 0
    <3>1. i - 1 \in 0..last /\ (i - 1) + 1 = i /\ i - 1 \in Nat
      BY <1>0, <2>2
    <3> QED
      BY <1>4, <2>2, <3>1
  <2> QED
    BY <2>1, <2>2
<1> DEFINE loop == CHOOSE f : Pass(f)
<1>6. Pass(loop)
  <2> HIDE DEF g, Pass
  <2> QED
    BY <1>5
<1>7. RepeatedPhrases(s) = loop[last].repeats
  BY Zenon DEF RepeatedPhrases, none, last
<1> HIDE DEF loop, g
<1>8. \A i \in 0..last : loop[i] = IF i = 0 THEN none ELSE CountPhrase(s, i, loop[i - 1])
  BY <1>6, Zenon
<1> HIDE DEF Pass
<1> DEFINE Right(k) == loop[k] = [phrases |-> loop[k].phrases, repeats |-> loop[k].repeats] /\ CountedTo(s, k, loop[k])
           Kept == {k \in Nat : k <= last => Right(k)}
<1>9. 0 \in Kept
  <2>1. loop[0] = none
    BY <1>0, <1>8
  <2>2. CountedTo(s, 0, none)
    BY SeenGrows DEF CountedTo, none
  <2> QED
    BY <2>1, <2>2 DEF none
<1>10. ASSUME NEW k \in Nat, k \in Kept PROVE k + 1 \in Kept
  <2> SUFFICES ASSUME k + 1 <= last PROVE Right(k + 1)
    BY <1>0
  <2>1. loop[k + 1] = CountPhrase(s, k + 1, loop[k])
    <3>1. k + 1 \in 0..last /\ k + 1 # 0 /\ (k + 1) - 1 = k
      BY <1>0
    <3> QED
      BY <1>8, <3>1
  <2>2. Right(k)
    BY <1>0, <1>10
  <2>3. CountedTo(s, k + 1, loop[k + 1])
    BY <2>1, <2>2, CountGrows
  <2> QED
    BY <2>1, <2>3 DEF CountPhrase
<1>11. \A k \in Nat : k \in Kept
  <2> HIDE DEF Kept
  <2> QED
    BY <1>9, <1>10, EveryNumber
<1>12. CountedTo(s, last, loop[last])
  <2>1. last \in Kept /\ last <= last
    <3> HIDE DEF Kept
    <3> QED
      BY <1>0, <1>11
  <2> QED
    BY <2>1
<1> QED
  BY <1>0a, <1>7, <1>12 DEF CountedTo, Seen, last

\* listLibreChatAgents: an entry with an id has the place that the entries before it leave.
Given(e, i) == {k \in 1..i : e[k] # NotGiven}
KeptTo(e, i, v) ==
    /\ v \in Seq(Agent) /\ Len(v) = Cardinality(Given(e, i))
    /\ \A j \in Given(e, i) : Cardinality(Given(e, j)) \in 1..Len(v) /\ v[Cardinality(Given(e, j))] = e[j]

LEMMA GivenGrows ==
    ASSUME NEW e, NEW i \in Nat
    PROVE  /\ IsFiniteSet(Given(e, i)) /\ Cardinality(Given(e, i)) \in Nat
           /\ Given(e, 0) = {} /\ Cardinality(Given(e, 0)) = 0
           /\ Given(e, i + 1) = IF e[i + 1] = NotGiven THEN Given(e, i) ELSE Given(e, i) \cup {i + 1}
           /\ e[i + 1] # NotGiven => Cardinality(Given(e, i + 1)) = Cardinality(Given(e, i)) + 1
<1>1. IsFiniteSet(Given(e, i))
  <2>1. Given(e, i) \subseteq 1..i /\ IsFiniteSet(1..i)
    BY FS_Interval DEF Given
  <2> QED
    BY <2>1, FS_Subset
<1>2. Given(e, i + 1) = IF e[i + 1] = NotGiven THEN Given(e, i) ELSE Given(e, i) \cup {i + 1}
  BY DEF Given
<1>3. Given(e, 0) = {}
  BY DEF Given
<1>4. Cardinality(Given(e, i)) \in Nat /\ Cardinality(Given(e, 0)) = 0
  BY <1>1, <1>3, FS_CardinalityType, FS_EmptySet
<1>5. i + 1 \notin Given(e, i)
  BY DEF Given
<1>6. Cardinality(Given(e, i) \cup {i + 1}) = Cardinality(Given(e, i)) + 1
  BY <1>1, <1>5, FS_AddElement
<1> QED
  BY <1>1, <1>2, <1>3, <1>4, <1>6

LEMMA KeptGrows ==
    ASSUME NEW e, NEW i \in Nat, NEW v, KeptTo(e, i, v), e[i + 1] \in Agent \cup {NotGiven}
    PROVE  KeptTo(e, i + 1, IF e[i + 1] = NotGiven THEN v ELSE Append(v, e[i + 1]))
<1>1. CASE e[i + 1] = NotGiven
  BY <1>1, GivenGrows DEF KeptTo
<1>2. CASE e[i + 1] # NotGiven
  <2> DEFINE w == Append(v, e[i + 1])
  <2>1. v \in Seq(Agent) /\ Len(v) = Cardinality(Given(e, i)) /\ Len(v) \in Nat
    BY DEF KeptTo
  <2>2. w \in Seq(Agent) /\ Len(w) = Len(v) + 1 /\ w[Len(v) + 1] = e[i + 1] /\ \A k \in 1..Len(v) : w[k] = v[k]
    BY <1>2, <2>1
  <2>3. Given(e, i + 1) = Given(e, i) \cup {i + 1} /\ Cardinality(Given(e, i + 1)) = Len(v) + 1
    <3>1. /\ Given(e, i + 1) = Given(e, i) \cup {i + 1}
          /\ Cardinality(Given(e, i + 1)) = Cardinality(Given(e, i)) + 1
      BY <1>2, GivenGrows
    <3> QED
      BY <2>1, <3>1
  <2> HIDE DEF w
  <2>4. ASSUME NEW j \in Given(e, i + 1)
        PROVE  Cardinality(Given(e, j)) \in 1..Len(w) /\ w[Cardinality(Given(e, j))] = e[j]
    <3>1. CASE j = i + 1
      BY <2>1, <2>2, <2>3, <3>1
    <3>2. CASE j \in Given(e, i)
      <4>1. Cardinality(Given(e, j)) \in 1..Len(v) /\ v[Cardinality(Given(e, j))] = e[j]
        BY <3>2 DEF KeptTo
      <4> QED
        BY <2>1, <2>2, <4>1
    <3> QED
      BY <2>3, <3>1, <3>2
  <2> QED
    BY <1>2, <2>2, <2>3, <2>4 DEF KeptTo, w
<1> QED
  BY <1>1, <1>2

LEMMA IdentifiedAreKept ==
    ASSUME NEW e \in Seq(Agent \cup {NotGiven})
    PROVE  KeptTo(e, Len(e), Identified(e))
<1> DEFINE n == Len(e)
<1>0. n \in Nat /\ \A i \in 1..n : e[i] \in Agent \cup {NotGiven}
  OBVIOUS
<1> DEFINE V == Seq(Agent)
           G == [p \in Nat \X V |-> IF p[1] + 1 \notin 1..n THEN p[2]
                                    ELSE IF e[p[1] + 1] = NotGiven THEN p[2] ELSE Append(p[2], e[p[1] + 1])]
           Pass(f) == f = [i \in 0..n |-> IF i = 0 THEN << >>
                                          ELSE IF e[i] = NotGiven THEN f[i - 1] ELSE Append(f[i - 1], e[i])]
<1>1. G \in [Nat \X V -> V]
  <2> HIDE DEF n
  <2> SUFFICES ASSUME NEW p \in Nat \X V
               PROVE  (IF p[1] + 1 \notin 1..n THEN p[2]
                       ELSE IF e[p[1] + 1] = NotGiven THEN p[2] ELSE Append(p[2], e[p[1] + 1])) \in V
    OBVIOUS
  <2>1. p[1] + 1 \in 1..n /\ e[p[1] + 1] # NotGiven => e[p[1] + 1] \in Agent
    BY <1>0
  <2> QED
    BY <2>1
<1>2. << >> \in V /\ \A k \in Nat, v \in V : k + 1 \in 1..n =>
          G[<<k, v>>] = IF e[k + 1] = NotGiven THEN v ELSE Append(v, e[k + 1])
  OBVIOUS
<1>3. PICK h \in [Nat -> V] : Recurs(h, << >>, G)
  <2> HIDE DEF V, G
  <2> QED
    BY <1>1, <1>2, Recursion
<1> HIDE DEF G
<1>4. /\ h[0] = << >>
      /\ \A k \in Nat : k + 1 \in 1..n => h[k + 1] = IF e[k + 1] = NotGiven THEN h[k] ELSE Append(h[k], e[k + 1])
  BY <1>2, <1>3 DEF Recurs
<1> HIDE DEF V, n
<1> DEFINE g == [i \in 0..n |-> h[i]]
<1>5. Pass(g)
  <2> SUFFICES ASSUME NEW i \in 0..n
               PROVE  g[i] = IF i = 0 THEN << >> ELSE IF e[i] = NotGiven THEN g[i - 1] ELSE Append(g[i - 1], e[i])
    OBVIOUS
  <2>1. CASE i = 0
    BY <1>4, <2>1
  <2>2. CASE i # 0
    <3>1. i - 1 \in 0..n /\ (i - 1) + 1 = i /\ i - 1 \in Nat /\ i \in 1..n
      BY <1>0, <2>2
    <3>2. g[i] = h[i] /\ g[i - 1] = h[i - 1]
      BY <3>1
    <3>3. h[i] = IF e[i] = NotGiven THEN h[i - 1] ELSE Append(h[i - 1], e[i])
      BY <1>4, <3>1
    <3> QED
      BY <2>2, <3>2, <3>3
  <2> QED
    BY <2>1, <2>2
<1> DEFINE loop == CHOOSE f : Pass(f)
<1>6. Pass(loop)
  <2> HIDE DEF g, Pass
  <2> QED
    BY <1>5
<1>7. Identified(e) = loop[n]
  BY Zenon DEF Identified, n
<1> HIDE DEF loop, g
<1>8. \A i \in 0..n : loop[i] = IF i = 0 THEN << >>
                                ELSE IF e[i] = NotGiven THEN loop[i - 1] ELSE Append(loop[i - 1], e[i])
  BY <1>6, Zenon
<1> HIDE DEF Pass
<1> DEFINE Kept == {k \in Nat : k <= n => KeptTo(e, k, loop[k])}
<1>9. 0 \in Kept
  <2>1. loop[0] = << >>
    BY <1>0, <1>8
  <2>2. KeptTo(e, 0, << >>)
    <3>1. Given(e, 0) = {} /\ Cardinality(Given(e, 0)) = 0
      BY GivenGrows
    <3>2. << >> \in Seq(Agent) /\ Len(<< >>) = 0
      OBVIOUS
    <3> QED
      BY <3>1, <3>2 DEF KeptTo
  <2> QED
    BY <2>1, <2>2
<1>10. ASSUME NEW k \in Nat, k \in Kept PROVE k + 1 \in Kept
  <2> SUFFICES ASSUME k + 1 <= n PROVE KeptTo(e, k + 1, loop[k + 1])
    BY <1>0
  <2>1. loop[k + 1] = IF e[k + 1] = NotGiven THEN loop[k] ELSE Append(loop[k], e[k + 1])
    <3>1. k + 1 \in 0..n /\ k + 1 # 0 /\ (k + 1) - 1 = k
      BY <1>0
    <3> QED
      BY <1>8, <3>1
  <2>2. KeptTo(e, k, loop[k]) /\ e[k + 1] \in Agent \cup {NotGiven}
    BY <1>0, <1>10
  <2> QED
    BY <2>1, <2>2, KeptGrows
<1>11. \A k \in Nat : k \in Kept
  <2> HIDE DEF Kept
  <2> QED
    BY <1>9, <1>10, EveryNumber
<1>12. n \in Kept /\ n <= n
  <2> HIDE DEF Kept
  <2> QED
    BY <1>0, <1>11
<1> QED
  BY <1>7, <1>12 DEF n

\* The names of the second answer change no id and no place.
LEMMA AgentsAreKept ==
    ASSUME NEW n \in Nat, NEW e \in [1..n -> Agent \cup {NotGiven}], NEW names,
           NEW out, out = IF names = {} THEN Identified(e) ELSE Enrich(Identified(e), names),
           NEW r, r.entries = e, r.names = names, r.out = out
    PROVE  AgentsKept(r)
<1>1. e \in Seq(Agent \cup {NotGiven}) /\ Len(e) = n /\ DOMAIN e = 1..n
  OBVIOUS
<1> DEFINE v == Identified(e)
<1>2. KeptTo(e, n, v)
  BY <1>1, IdentifiedAreKept
<1> HIDE DEF v
<1>3. v \in Seq(Agent) /\ Len(v) = Cardinality(Given(e, n)) /\ DOMAIN v = 1..Len(v) /\ Len(v) \in Nat
  BY <1>2 DEF KeptTo
<1>4. /\ Len(out) = Len(v)
      /\ \A k \in 1..Len(v) : out[k].id = v[k].id /\ out[k].name = IF v[k].id \in names THEN "found" ELSE v[k].name
  <2>1. CASE names = {}
    BY <1>3, <2>1 DEF v
  <2>2. CASE names # {}
    <3>1. out = [k \in 1..Len(v) |-> IF v[k].id \in names THEN [v[k] EXCEPT !.name = "found"] ELSE v[k]]
      BY <1>3, <2>2 DEF v, Enrich
    <3> DEFINE S == Agent \cup [id : {"g1", "g2"}, name : {"found"}]
    <3>2. \A k \in 1..Len(v) : v[k] \in Agent
      BY <1>3
    <3>3. \A a \in Agent : [a EXCEPT !.name = "found"] \in S /\ [a EXCEPT !.name = "found"].id = a.id
                           /\ [a EXCEPT !.name = "found"].name = "found"
      BY DEF Agent
    <3>4. out \in [1..Len(v) -> S]
      BY <3>1, <3>2, <3>3
    <3> HIDE DEF S
    <3>5. Len(out) = Len(v)
      BY <1>3, <3>4
    <3>6. ASSUME NEW k \in 1..Len(v)
          PROVE  out[k].id = v[k].id /\ out[k].name = IF v[k].id \in names THEN "found" ELSE v[k].name
      <4>1. out[k] = IF v[k].id \in names THEN [v[k] EXCEPT !.name = "found"] ELSE v[k]
        BY <3>1
      <4> DEFINE a == v[k]
      <4>2. a \in Agent
        BY <3>2
      <4>3. out[k] = IF a.id \in names THEN [a EXCEPT !.name = "found"] ELSE a
        BY <4>1
      <4> HIDE DEF a
      <4>4. out[k].id = a.id /\ out[k].name = IF a.id \in names THEN "found" ELSE a.name
        BY <3>3, <4>2, <4>3
      <4> QED
        BY <4>4 DEF a
    <3> QED
      BY <3>5, <3>6
  <2> QED
    BY <2>1, <2>2
<1> DEFINE kept == {i \in 1..n : e[i] # NotGiven}
<1>5. kept = Given(e, n)
  BY DEF Given
<1>6. ASSUME NEW i \in kept
      PROVE  /\ Cardinality({k \in kept : k <= i}) \in 1..Len(v)
             /\ v[Cardinality({k \in kept : k <= i})] = e[i]
  <2>1. {k \in kept : k <= i} = Given(e, i)
    BY DEF Given
  <2>2. i \in Given(e, n)
    BY <1>5, <1>6
  <2> QED
    BY <1>2, <2>1, <2>2 DEF KeptTo
<1> HIDE DEF kept
<1>7. Len(out) = Cardinality(kept)
  BY <1>3, <1>4, <1>5
<1>8. ASSUME NEW i \in kept
      PROVE  LET a == out[Cardinality({k \in kept : k <= i})] IN
             a.id = e[i].id /\ a.name = IF a.id \in names THEN "found" ELSE e[i].name
  BY <1>4, <1>6
<1> DEFINE places == {i \in DOMAIN r.entries : r.entries[i] # NotGiven}
<1>9. places = kept
  BY <1>1 DEF kept
<1> HIDE DEF places
<1>10. /\ Len(r.out) = Cardinality(places)
       /\ \A i \in places :
             LET a == r.out[Cardinality({k \in places : k <= i})] IN
             a.id = r.entries[i].id /\ a.name = IF a.id \in r.names THEN "found" ELSE r.entries[i].name
  BY <1>7, <1>8, <1>9
<1> QED
  BY <1>10 DEF AgentsKept, places

\* Of every other function its reference says no more than one case tells.
LEMMA PrecedenceHolds ==
    ASSUME NEW declared \in SUBSET Placeholders, NEW given \in SUBSET Placeholders, RenderPromptTemplate(declared, given)
    PROVE  \A n \in Placeholders : Precedence(result', n)
<1> DEFINE one == WithDefaults(declared)
           two == Override(one, given)
           three == AssignBuiltIns(two)
<1>1. DOMAIN one = declared /\ \A n \in declared : one[n] = "default"
  BY DEF WithDefaults
<1>2. /\ DOMAIN two = declared \cup (given \cap Inherited)
      /\ \A n \in DOMAIN two : two[n] = IF n \in given THEN "override" ELSE one[n]
  BY <1>1 DEF Override
<1>3. /\ DOMAIN three = (DOMAIN two) \cup BuiltIns
      /\ \A n \in DOMAIN three : three[n] = IF n \in BuiltIns THEN "builtin" ELSE two[n]
  BY DEF AssignBuiltIns
<1>4. /\ result'.values = [n \in Placeholders |-> Resolve(three, n)]
      /\ result'.declared = declared /\ result'.given = given
  BY DEF RenderPromptTemplate
<1> HIDE DEF one, two, three
<1> TAKE n \in Placeholders
<1>5. result'.values[n] = Resolve(three, n)
  BY <1>4
<1>6. CASE n \in BuiltIns
  BY <1>3, <1>5, <1>6 DEF Resolve, Precedence
<1>7. CASE n \notin BuiltIns /\ n \in declared
  BY <1>1, <1>2, <1>3, <1>4, <1>5, <1>7 DEF Resolve, Precedence
<1>8. CASE n \notin BuiltIns /\ n \notin declared
  BY <1>2, <1>3, <1>4, <1>5, <1>8 DEF Resolve, Precedence
<1> QED
  BY <1>6, <1>7, <1>8

LEMMA BudgetHolds ==
    ASSUME NEW prompt \in Nat, NEW extracted \in Nat, NEW max \in Nat, BuildAttachmentPrompt(prompt, extracted, max)
    PROVE  WithinPrompt(result')
<1> DEFINE out == AttachmentPrompt(prompt, extracted, max)
           room == max - prompt - HeaderChars
           kept == IF extracted > room THEN room - NoticeChars ELSE extracted
<1>0. HeaderChars \in Nat /\ NoticeChars \in Nat
  BY TextAssumption
<1>1. result'.prompt = prompt /\ result'.extracted = extracted /\ result'.max = max /\ result'.out = out
  BY DEF BuildAttachmentPrompt
<1>2. CASE room <= 0 \/ (extracted > room /\ room <= NoticeChars)
  BY <1>1, <1>2 DEF AttachmentPrompt, WithinPrompt
<1>3. CASE ~ (room <= 0 \/ (extracted > room /\ room <= NoticeChars))
  <2>1. out = [error |-> FALSE, kept |-> kept,
               chars |-> prompt + HeaderChars + kept + IF kept < extracted THEN NoticeChars ELSE 0]
    BY <1>3 DEF AttachmentPrompt
  <2>2. CASE extracted > room
    <3>1. out.kept = room - NoticeChars /\ out.chars = prompt + HeaderChars + (room - NoticeChars) + NoticeChars
      BY <1>0, <2>1, <2>2
    <3>2. out.kept <= extracted /\ out.chars = max /\ prompt + HeaderChars + extracted > max
      BY <1>0, <2>2, <3>1
    <3> HIDE DEF out
    <3> QED
      BY <1>1, <3>2 DEF WithinPrompt
  <2>3. CASE ~ (extracted > room)
    <3>1. out.kept = extracted /\ out.chars = prompt + HeaderChars + extracted + 0
      BY <1>0, <2>1, <2>3
    <3>2. out.chars <= max
      BY <1>0, <2>3, <3>1
    <3> HIDE DEF out
    <3> QED
      BY <1>1, <3>1, <3>2 DEF WithinPrompt
  <2> QED
    BY <2>2, <2>3
<1> QED
  BY <1>2, <1>3

LEMMA BodiesHold ==
    ASSUME NEW place \in [Holes -> Places], NEW output \in SUBSET Kinds, NEW error \in SUBSET Kinds,
           RenderWebhookPayload(place, [status |-> {"plain"}, output |-> output, error_message |-> error])
    PROVE  BodyParses(result')
<1> DEFINE values == [status |-> {"plain"}, output |-> output, error_message |-> error]
<1>1. result'.place = place /\ result'.accepted = Accepts(place) /\ result'.json = IsJson(place, values)
  BY DEF RenderWebhookPayload
<1> SUFFICES ASSUME Accepts(place), place["error_message"] # "bare" PROVE IsJson(place, values)
  BY <1>1 DEF BodyParses
<1>2. \A v : Escaped(v) \cap {"quote", "newline"} = {}
  BY DEF Escaped
<1>3. \A h : Rendered(h, values) \cap {"quote", "newline"} = {}
  BY <1>2 DEF Rendered
<1>4. "status" \in Holes /\ "output" \in Holes /\ "unknown" \in Holes
  BY DEF Holes
<1>5. \A h \in {"status", "output", "unknown"} : Rendered(h, Sample) # {}
  <2>1. "plain" \in Sample["status"] /\ "plain" \in Sample["output"]
    BY DEF Sample, RunValues, Kinds
  <2>2. \A v : "plain" \in v => "plain" \in Escaped(v)
    BY DEF Escaped
  <2> QED
    BY <2>1, <2>2 DEF Rendered, RunValues
<1>6. \A h \in Holes : place[h] # "bare"
  <2>1. \A h \in Holes : place[h] = "bare" => Rendered(h, Sample) = {}
    BY DEF Accepts, IsJson
  <2> QED
    BY <1>4, <1>5, <2>1 DEF Accepts, Holes
<1> QED
  BY <1>3, <1>6 DEF IsJson

LEMMA UsageHolds ==
    ASSUME NEW usage \in [UsageFields -> {NotGiven, 0, 1, 2}], ExtractTokenUsage(usage)
    PROVE  OneConvention(result')
<1> DEFINE out == TokenUsage(usage)
           pairs == {<<usage[c[1]], usage[c[2]]>> : c \in {<<"prompt", "completion">>, <<"input", "output">>}}
           whole == {p \in pairs : p[1] # NotGiven /\ p[2] # NotGiven}
           one == <<usage["prompt"], usage["completion"]>>
           two == <<usage["input"], usage["output"]>>
<1>1. result'.usage = usage /\ result'.out = out
  BY DEF ExtractTokenUsage
<1>2. pairs = {one, two}
  OBVIOUS
<1>3. /\ one \in whole <=> Whole(usage, "prompt", "completion")
      /\ two \in whole <=> Whole(usage, "input", "output")
      /\ whole \subseteq {one, two}
  BY <1>2 DEF Whole
<1>4. \A f \in UsageFields : usage[f] # NotGiven => usage[f] \in 0..2
  OBVIOUS
<1>5. \A p \in whole : p # NotGiven
  <2>1. \A a, b \in 0..2 : <<a, b>> # NotGiven
    BY TextAssumption
  <2>2. Whole(usage, "prompt", "completion") => one # NotGiven
    BY <1>4, <2>1 DEF Whole, UsageFields
  <2>3. Whole(usage, "input", "output") => two # NotGiven
    BY <1>4, <2>1 DEF Whole, UsageFields
  <2> HIDE DEF whole, one, two
  <2> QED
    BY <1>3, <2>2, <2>3
<1> DEFINE pair == IF Whole(usage, "prompt", "completion") THEN one
                   ELSE IF Whole(usage, "input", "output") THEN two ELSE <<0, 0>>
<1>6. out = IF pair = <<0, 0>> THEN NotGiven ELSE pair
  BY Zenon DEF TokenUsage
<1> DEFINE Claim == IF out = NotGiven THEN whole = {} \/ <<0, 0>> \in whole ELSE out \in whole \ {<<0, 0>>}
<1>7. Claim
  <2> HIDE DEF whole, one, two, out
  <2> QED
    BY <1>3, <1>5, <1>6
<1> HIDE DEF out
<1>8. result'.out = NotGiven <=> out = NotGiven
  BY <1>1
<1> QED
  BY <1>1, <1>7, <1>8, ZenonT(30) DEF OneConvention

LEMMA HeadersHold ==
    ASSUME NEW custom \in SUBSET (Reserved \cup {"token"}), NEW signed \in BOOLEAN, BuildHeaders(custom, signed)
    PROVE  HeadersKept(result')
<1>1. /\ result'.custom = custom /\ result'.signed = signed
      /\ result'.out = (custom \ Reserved) \cup {"Content-Type"} \cup IF signed THEN {"X-Nexus-Signature"} ELSE {}
  BY DEF BuildHeaders
<1>2. "Content-Type" \notin Reserved /\ "X-Nexus-Signature" \notin Reserved /\ "Content-Type" # "X-Nexus-Signature"
  BY DEF Reserved
<1>3. "X-Nexus-Signature" \notin custom
  BY DEF Reserved
<1> QED
  BY <1>1, <1>2, <1>3 DEF HeadersKept

LEMMA NotesHold ==
    ASSUME NEW many \in Nat, NEW content \in {"none", "blank", "text"}, NEW finish,
           DescribeToolCall(many, content, finish)
    PROVE  AnswerOrNote(result')
<1>1. /\ result'.calls = many /\ result'.finish = finish /\ result'.answered = (content = "text")
      /\ result'.note = (many > 0 /\ (finish = "tool_calls" \/ ~(content = "text")))
      /\ result'.output = (result'.note \/ content # "none")
  BY DEF DescribeToolCall
<1> QED
  BY <1>1 DEF AnswerOrNote

LEMMA CountsHold ==
    ASSUME NEW n \in Nat, NEW s \in [1..n -> Lines], DetectRepetition(s)
    PROVE  Counted(result')
<1>1. s \in Seq(Lines)
  OBVIOUS
<1>2. result'.text = s /\ result'.longest = LongestRepeat(s) /\ result'.repeats = RepeatedPhrases(s)
  BY DEF DetectRepetition
<1>3. LongestRepeat(s) = IF s = << >> THEN 0 ELSE Max(Stretches(s))
  <2>1. CASE s = << >>
    BY <2>1, Zenon DEF LongestRepeat
  <2> QED
    BY <1>1, <2>1, LongestIsLongest
<1> DEFINE places == 1..(Len(s) - GramSize + 1)
<1>4. Len(s) >= 2 * GramSize => RepeatedPhrases(s) = Cardinality(places) - Cardinality({Phrase(s, i) : i \in places})
  BY <1>1, PhrasesAreCounted
<1> QED
  BY <1>2, <1>3, <1>4, Zenon DEF Counted

LEMMA AgentsHold ==
    ASSUME NEW n \in Nat, NEW e \in [1..n -> Agent \cup {NotGiven}], NEW names, ListAgents(e, names)
    PROVE  AgentsKept(result')
<1> DEFINE out == IF names = {} THEN Identified(e) ELSE Enrich(Identified(e), names)
<1>1. result'.entries = e /\ result'.names = names /\ result'.out = out
  BY DEF ListAgents
<1> HIDE DEF out
<1> QED
  BY <1>1, AgentsAreKept DEF out

\* Each function gives what its reference says, for any names, lines, texts, budgets,
\* phrases, templates, counts and agents.
THEOREM TextsAreAsSpecified == TextSpec => []TextAsSpecified
<1>1. TextInit => TextAsSpecified
  BY DEF TextInit, TextAsSpecified, NoText
<1>2. TextAsSpecified /\ [TextNext]_result => TextAsSpecified'
  <2> SUFFICES ASSUME TextAsSpecified, [TextNext]_result PROVE TextAsSpecified'
    OBVIOUS
  <2>1. ASSUME NEW declared \in SUBSET Placeholders, NEW given \in SUBSET Placeholders,
               RenderPromptTemplate(declared, given)
        PROVE  TextAsSpecified'
    <3>1. result'.of = "render"
      BY <2>1 DEF RenderPromptTemplate
    <3> QED
      BY <2>1, <3>1, PrecedenceHolds DEF TextAsSpecified
  <2>2. ASSUME NEW prompt \in 0..MaxChars, NEW extracted \in 0..MaxChars, NEW max \in 0..MaxChars,
               BuildAttachmentPrompt(prompt, extracted, max)
        PROVE  TextAsSpecified'
    <3>1. result'.of = "attach"
      BY <2>2 DEF BuildAttachmentPrompt
    <3> QED
      BY <2>2, <3>1, BudgetHolds DEF TextAsSpecified
  <2>3. ASSUME NEW n \in 0..MaxLines, NEW s \in [1..n -> Lines], DetectRepetition(s)
        PROVE  TextAsSpecified'
    <3>1. result'.of = "detect"
      BY <2>3 DEF DetectRepetition
    <3> QED
      BY <2>3, <3>1, CountsHold DEF TextAsSpecified
  <2>4. ASSUME NEW place \in [Holes -> Places], NEW output \in SUBSET Kinds, NEW error \in SUBSET Kinds,
               RenderWebhookPayload(place, [status |-> {"plain"}, output |-> output, error_message |-> error])
        PROVE  TextAsSpecified'
    <3>1. result'.of = "payload"
      BY <2>4 DEF RenderWebhookPayload
    <3> QED
      BY <2>4, <3>1, BodiesHold DEF TextAsSpecified
  <2>5. ASSUME NEW custom \in SUBSET (Reserved \cup {"token"}), NEW signed \in BOOLEAN, BuildHeaders(custom, signed)
        PROVE  TextAsSpecified'
    <3>1. result'.of = "headers"
      BY <2>5 DEF BuildHeaders
    <3> QED
      BY <2>5, <3>1, HeadersHold DEF TextAsSpecified
  <2>6. ASSUME NEW usage \in [UsageFields -> {NotGiven, 0, 1, 2}], ExtractTokenUsage(usage)
        PROVE  TextAsSpecified'
    <3>1. result'.of = "usage"
      BY <2>6 DEF ExtractTokenUsage
    <3> QED
      BY <2>6, <3>1, UsageHolds DEF TextAsSpecified
  <2>7. ASSUME NEW many \in 0..2, NEW content \in {"none", "blank", "text"},
               NEW finish \in {"stop", "tool_calls", "none"}, DescribeToolCall(many, content, finish)
        PROVE  TextAsSpecified'
    <3>1. result'.of = "tools"
      BY <2>7 DEF DescribeToolCall
    <3> QED
      BY <2>7, <3>1, NotesHold DEF TextAsSpecified
  <2>8. ASSUME NEW n \in 0..3, NEW e \in [1..n -> Agent \cup {NotGiven}], NEW names \in SUBSET {"g1", "g2"},
               ListAgents(e, names)
        PROVE  TextAsSpecified'
    <3>1. result'.of = "agents"
      BY <2>8 DEF ListAgents
    <3> QED
      BY <2>8, <3>1, AgentsHold DEF TextAsSpecified
  <2>9. CASE TextReturn
    BY <2>9 DEF TextReturn, TextAsSpecified, NoText
  <2>10. CASE UNCHANGED result
    BY <2>10 DEF TextAsSpecified
  <2> QED
    BY <2>1, <2>2, <2>3, <2>4, <2>5, <2>6, <2>7, <2>8, <2>9, <2>10 DEF TextNext
<1> QED
  BY <1>1, <1>2, PTL DEF TextSpec

-----------------------------------------------------------------------------
(***************************************************************************)
(* What MCServices composes. A step of it is a step of one part and lets   *)
(* the others rest, so it is a step or a stutter of each: what a part      *)
(* keeps by itself it keeps among the others.                              *)
(***************************************************************************)

\* No dialog, of a schedule, of who is told or of a prompt, sends what its user neither
\* saw nor chose, and a prompt's dialog catches up with what is stored: for any lists,
\* destinations, schedules, versions and calls.
THEOREM DialogsAreKept == SettingsSpec /\ FormSpec /\ DialogSpec => DialogsKeepTheRest
BY SavesDropOnlyUnchecked, EditsStartFromSaved, DraftsAreWhole, DialogCatchesUp, PTL DEF DialogsKeepTheRest

LEMMA EachStepsOrRests ==
    [Next]_vars =>
        /\ [AccountNext]_accountVars /\ [KeyNext]_keyVars /\ [RateNext]_rateVars
        /\ [DeliveryNext]_deliveryVars /\ [ReportNext]_reportVars /\ [AuditNext]_auditVars
        /\ [StatusNext]_statusVars /\ [TextNext]_result /\ [RendererNext]_rendererVars
        /\ [SettingsNext]_settingsVars /\ [DestinationNext]_destinationVars /\ [FormNext]_formVars
        /\ [DialogNext]_dialogVars
<1>1. DeliveryApart => DeliveryNext
  BY DEF DeliveryApart, DeliveryNext
<1>2. QED
  BY <1>1 DEF Next, OthersRest, vars

\* The parts composed implement each of them: whatever one does among the others it may
\* do alone.
THEOREM PartsBehave ==
    Spec => /\ AccountSpec /\ KeySpec /\ RateSpec /\ DeliverySpec /\ ReportSpec /\ AuditSpec
            /\ StatusSpec /\ TextSpec /\ RendererSpec /\ SettingsSpec /\ DestinationSpec /\ FormSpec
            /\ DialogSpec
<1>1. Init => /\ AccountInit /\ KeyInit /\ RateInit /\ DeliveryInit /\ ReportInit /\ AuditInit
              /\ StatusInit /\ TextInit /\ RendererInit /\ SettingsInit /\ DestinationInit /\ FormInit
              /\ DialogInit
  BY DEF Init
<1>2. QED
  BY <1>1, EachStepsOrRests, PTL
     DEF Spec, AccountSpec, KeySpec, RateSpec, DeliverySpec, ReportSpec, AuditSpec, StatusSpec, TextSpec,
         RendererSpec, SettingsSpec, DestinationSpec, FormSpec, DialogSpec

\* So what each part keeps is kept of all of them at once.
THEOREM PartsAreSafe ==
    Spec => /\ [](/\ VoidLinkStays /\ JobsKeepTheirKeys /\ AgentCostDetermined /\ DeliveredAsRecorded
                  /\ NothingSkipped /\ MirrorNeverMatters /\ ShownWasTrueLately /\ SlotsAccounted
                  /\ TextAsSpecified)
            /\ AdminRemains /\ LoggedOutStaysOut /\ DialogsKeepTheRest /\ TemplateLostOnlyToRace
BY PartsBehave, VoidLinksStay, KeysKept, CostIsDetermined, TrailIsTrue, ReportsLeaveNoGap, ForwardingOnlyMirrors,
   ShownIsRecent, SlotsAreAccounted, TextsAreAsSpecified, LastAdminRemains, LoggedOutStay, DialogsAreKept, TemplateKept, PTL

PartsInv ==
    /\ AccountInv /\ KeyInv /\ RateInv
    /\ DeliveryInv /\ RowsTypeOK
    /\ ReportInv /\ ReportTypeOK
    /\ AuditInv /\ StatusInv /\ RendererInv
    /\ SettingsInv /\ SettingsTypeOK
    /\ DestinationInv /\ FormInv /\ DialogInv

LEMMA PartsStart == Init => PartsInv
BY AccountStart, KeyStart, RateInitially, DeliveryInitially, RowsInitially, ReportInitially, ReportTypeInitially,
   AuditInitially, StatusInitially, RendererInitInv, SettingsInitially, SettingsTypeInitially, DestinationStart,
   FormInitially, DialogInitially
   DEF Init, PartsInv

LEMMA PartsStep == PartsInv /\ [Next]_vars => PartsInv'
<1> SUFFICES ASSUME PartsInv, [Next]_vars PROVE PartsInv'
  OBVIOUS
<1>1. AccountInv' /\ KeyInv' /\ RateInv'
  BY EachStepsOrRests, AccountStep, KeyStep, RateStep DEF PartsInv
<1>2. DeliveryInv' /\ RowsTypeOK' /\ ReportInv' /\ ReportTypeOK'
  BY EachStepsOrRests, DeliveryStep, RowsStep, ReportStep, ReportTypeStep DEF PartsInv
<1>3. AuditInv' /\ StatusInv' /\ RendererInv'
  BY EachStepsOrRests, AuditStep, StatusStep, RendererStep DEF PartsInv
<1>4. SettingsInv' /\ SettingsTypeOK'
  BY EachStepsOrRests, SettingsStep, SettingsTypeStep DEF PartsInv
<1>5. DestinationInv' /\ FormInv' /\ DialogInv'
  BY EachStepsOrRests, DestinationStep, FormStep, DialogStep DEF PartsInv
<1>6. QED
  BY <1>1, <1>2, <1>3, <1>4, <1>5 DEF PartsInv

\* The variables of every part keep their types, whichever part moves.
THEOREM PartsKeepTypes == Spec => []TypeOK
<1>1. PartsInv => TypeOK
  BY RowsAndTasks DEF PartsInv, TypeOK, AccountInv, KeyInv, RateInv, AuditInv, StatusInv, RendererInv, DestinationInv,
                      FormInv, DialogInv
<1>2. QED
  BY PartsStart, PartsStep, <1>1, PTL DEF Spec

=============================================================================
