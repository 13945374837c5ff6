---------------------------- MODULE Settings_proofs ----------------------------
(***************************************************************************)
(* Proofs about Settings, for any number of requests, any share lists and  *)
(* faces settings, and any number of crashes and failing calls.            *)
(***************************************************************************)
EXTENDS Settings, TLAPS

----------------------------------------------------------------------------
(* Type correctness                                                        *)

\* Whatever settings.json holds, the next start has settings.
LEMMA LoadIsDocument ==
  ASSUME NEW text \in Text
  PROVE  Load(text) \in Document
BY SettingsAssumption DEF Load, Text, Empty, Document

\* A document is neither a missing nor a torn file.
LEMMA DocumentIsWhole ==
  ASSUME NEW doc \in Document
  PROVE  doc # Absent /\ doc # Torn
BY SettingsAssumption DEF Document

LEMMA SettingsInitTyped == SettingsInit => SettingsTypeOK
<1> SUFFICES ASSUME SettingsInit PROVE SettingsTypeOK
  OBVIOUS
<1>1. onFile \in Text /\ onTmp \in Text
  BY DEF SettingsInit, Text
<1>2. stored \in Document /\ live \in ShareLists
  BY <1>1, LoadIsDocument DEF SettingsInit, Document
<1>3. NoWrite \in Write
  BY SettingsAssumption DEF NoWrite, Write, Document, Empty
<1>4. writer \in [Requests -> Write]
  BY <1>3 DEF SettingsInit
<1>5. puts \in 0 .. MaxPuts /\ restarts \in 0 .. MaxRestarts /\ errors \in 0 .. MaxErrors
  BY SettingsAssumption DEF SettingsInit
<1>6. raced \in BOOLEAN
  BY DEF SettingsInit
<1> QED
  BY <1>1, <1>2, <1>4, <1>5, <1>6 DEF SettingsTypeOK

\* A request that moves on keeps its document.
LEMMA AtKeepsType ==
  ASSUME writer \in [Requests -> Write], NEW r \in Requests,
         NEW place \in {"written", "cleaning", "publishing"}, At(r, place)
  PROVE  writer' \in [Requests -> Write]
<1>1. [writer[r] EXCEPT !.at = place] \in Write
  BY DEF Write
<1>2. writer' = [writer EXCEPT ![r] = [writer[r] EXCEPT !.at = place]]
  BY DEF At
<1> QED
  BY <1>1, <1>2

\* One step per action; what an action leaves alone keeps its type.
LEMMA SettingsNextTyped == SettingsTypeOK /\ [SettingsNext]_settingsVars => SettingsTypeOK'
<1> SUFFICES ASSUME SettingsTypeOK, [SettingsNext]_settingsVars PROVE SettingsTypeOK'
  OBVIOUS
<1> USE SettingsAssumption DEF SettingsTypeOK
<1>a. NoWrite \in Write
  BY DEF NoWrite, Write, Document, Empty
<1>b. Document \subseteq Text /\ {Absent, Torn} \subseteq Text
  BY DEF Text
<1>1. ASSUME NEW r \in Requests, Marshal(r) PROVE SettingsTypeOK'
  <2>1. PICK half \in {"shares", "faces"}, new \in ShareLists \cup Profiles :
          /\ half = "shares" => new \in ShareLists
          /\ half = "faces" => new \in Profiles
          /\ writer' = [writer EXCEPT ![r] = [at |-> "marshalled", half |-> half,
                                              doc |-> Edited(half, new), holds |-> "nothing"]]
    BY <1>1 DEF Marshal
  <2>2. Edited(half, new) \in Document
    BY <2>1 DEF Edited, Document
  <2>3. [at |-> "marshalled", half |-> half, doc |-> Edited(half, new), holds |-> "nothing"] \in Write
    BY <2>2 DEF Write
  <2>4. writer' \in [Requests -> Write]
    BY <2>1, <2>3
  <2> QED
    BY <1>1, <2>4 DEF Marshal, disk, memory
<1>2. ASSUME NEW r \in Requests, OpenTmp(r) PROVE SettingsTypeOK'
  <2>1. [writer[r] EXCEPT !.at = "open", !.holds = "tmp"] \in Write
    BY DEF Write
  <2>2. \/ writer' = [writer EXCEPT ![r] = [writer[r] EXCEPT !.at = "open", !.holds = "tmp"]]
        \/ writer' = [writer EXCEPT ![r] = NoWrite]
    BY <1>2 DEF OpenTmp, Fail
  <2>3. writer' \in [Requests -> Write]
    BY <1>a, <2>1, <2>2
  <2>4. onTmp' \in Text /\ errors' \in 0 .. MaxErrors
    BY <1>2, <1>b DEF OpenTmp, Fail
  <2> QED
    BY <1>2, <2>3, <2>4 DEF OpenTmp, memory
<1>3. ASSUME NEW r \in Requests, WriteTmp(r) PROVE SettingsTypeOK'
  <2>1. writer[r].doc \in Document
    BY DEF Write
  <2>2. ASSUME NEW text \in Text, SetText(r, text) PROVE onTmp' \in Text /\ onFile' \in Text
    BY <2>2 DEF SetText
  <2>3. onTmp' \in Text /\ onFile' \in Text
    BY <1>3, <1>b, <2>1, <2>2 DEF WriteTmp
  <2>4. writer' \in [Requests -> Write]
    BY <1>3, <1>a, AtKeepsType DEF WriteTmp, Fail
  <2>5. errors' \in 0 .. MaxErrors
    BY <1>3 DEF WriteTmp, Fail
  <2> QED
    BY <1>3, <2>3, <2>4, <2>5 DEF WriteTmp, memory
<1>4. ASSUME NEW r \in Requests, RenameTmp(r) PROVE SettingsTypeOK'
  <2>1. ASSUME NEW q \in Requests PROVE Moved(writer[q]) \in Write
    BY DEF Moved, Write
  <2>2. ASSUME NEW q \in Requests
        PROVE  [Moved(writer[q]) EXCEPT !.at = IF q = r THEN "renamed" ELSE writer[q].at] \in Write
    BY <2>1 DEF Write
  <2>3. writer' \in [Requests -> Write]
    BY <1>4, <2>2, AtKeepsType DEF RenameTmp
  <2>4. onFile' \in Text /\ onTmp' \in Text
    BY <1>4, <1>b DEF RenameTmp, disk
  <2>5. errors' \in 0 .. MaxErrors
    BY <1>4 DEF RenameTmp
  <2> QED
    BY <1>4, <2>3, <2>4, <2>5 DEF RenameTmp, memory
<1>5. ASSUME NEW r \in Requests, RemoveTmp(r) PROVE SettingsTypeOK'
  BY <1>5, <1>a, <1>b DEF RemoveTmp, memory, settingsBounds, Write
<1>6. ASSUME NEW r \in Requests, Remember(r) PROVE SettingsTypeOK'
  <2>1. stored' \in Document
    BY <1>6 DEF Remember, Document, Write
  <2>2. writer' \in [Requests -> Write]
    BY <1>6, <1>a DEF Remember, Write
  <2> QED
    BY <1>6, <2>1, <2>2 DEF Remember, disk, settingsBounds
<1>7. ASSUME NEW r \in Requests, ReadBack(r) PROVE SettingsTypeOK'
  <2>1. [writer[r] EXCEPT !.at = "going live", !.doc.shares = stored.shares] \in Write
    BY DEF Write, Document
  <2>2. writer' = [writer EXCEPT ![r] =
                     [writer[r] EXCEPT !.at = "going live", !.doc.shares = stored.shares]]
    BY <1>7 DEF ReadBack
  <2>3. writer' \in [Requests -> Write]
    BY <2>1, <2>2
  <2> QED
    BY <1>7, <2>3 DEF ReadBack, disk, memory, settingsBounds
<1>8. ASSUME NEW r \in Requests, GoLive(r) PROVE SettingsTypeOK'
  BY <1>8, <1>a DEF GoLive, disk, settingsBounds, Write, Document
<1>9. CASE Restart
  <2>1. stored' \in Document
    BY <1>9, LoadIsDocument DEF Restart
  <2>2. live' \in ShareLists
    BY <1>9, <2>1 DEF Restart, Document
  <2> QED
    BY <1>9, <1>a, <2>1, <2>2 DEF Restart, disk
<1>10. CASE UNCHANGED settingsVars
  BY <1>10 DEF settingsVars, disk, memory, settingsBounds
<1> QED
  BY <1>1, <1>2, <1>3, <1>4, <1>5, <1>6, <1>7, <1>8, <1>9, <1>10 DEF SettingsNext, WriteStep

\* The file and the memory always hold settings, and requests their documents, for every
\* value of the constants.
THEOREM SettingsTyped == SettingsSpec => []SettingsTypeOK
<1>1. SettingsInit => SettingsTypeOK
  BY SettingsInitTyped
<1>2. SettingsTypeOK /\ [SettingsNext]_settingsVars => SettingsTypeOK'
  BY SettingsNextTyped
<1> QED
  BY <1>1, <1>2, PTL DEF SettingsSpec

----------------------------------------------------------------------------
(* What the store is between two requests, and how far a lone one has come *)

Settled == Load(onFile) = stored /\ live = stored.shares

\* The half of the document that the request does not set is the one of the memory.
Prepared(w) ==
  IF w.half = "shares" THEN w.doc.faces = stored.faces ELSE w.doc.shares = stored.shares

Standing(w) ==
  /\ w.at \in {"marshalled", "open", "written", "cleaning"} => Settled /\ Prepared(w)
  /\ w.at = "open" => w.holds = "tmp" /\ onTmp = Torn
  /\ w.at = "written" => onTmp = w.doc
  /\ w.at = "renamed" => onFile = w.doc /\ live = stored.shares /\ Prepared(w)
  /\ w.at = "publishing" => onFile = stored
  /\ w.at = "going live" => onFile = stored /\ w.doc.shares = stored.shares

StoreInv ==
  raced \/ /\ onFile # Torn
           /\ Writing = {} => Settled
           /\ \A r \in Writing : Writing = {r} /\ Standing(writer[r])

\* What a step of the one request in flight owes to the invariant.
LEMMA LoneStep ==
  ASSUME NEW r \in Requests,
         \A q \in Requests \ {r} : writer'[q].at = "idle",
         onFile' # Torn,
         writer'[r].at = "idle" => Settled',
         writer'[r].at # "idle" => Standing(writer[r])'
  PROVE  StoreInv'
<1>1. CASE writer'[r].at = "idle"
  <2>1. Writing' = {}
    BY <1>1 DEF Writing
  <2> QED
    BY <1>1, <2>1 DEF StoreInv
<1>2. CASE writer'[r].at # "idle"
  <2>1. Writing' = {r}
    BY <1>2 DEF Writing
  <2> QED
    BY <1>2, <2>1 DEF StoreInv
<1> QED
  BY <1>1, <1>2

LEMMA Agreed ==
  ASSUME NEW d \in Document PROVE Load(d) = d
BY DocumentIsWhole DEF Load

\* A document that differs from another in one half is the other with that half replaced.
LEMMA HalfReplaced ==
  ASSUME NEW c \in Document, NEW d \in Document
  PROVE  /\ c.faces = d.faces => d = [c EXCEPT !.shares = d.shares]
         /\ c.shares = d.shares => d = [c EXCEPT !.faces = d.faces]
BY DEF Document

\* A request that starts alone, at settled settings, has prepared a document.
LEMMA MarshalStands ==
  ASSUME SettingsTypeOK, StoreInv, ~ raced', NEW r \in Requests, Marshal(r)
  PROVE  StoreInv'
<1>1. Writing = {} /\ ~ raced
  BY DEF Marshal
<1>2. onFile # Torn /\ Settled
  BY <1>1 DEF StoreInv
<1>3. onFile' # Torn /\ Settled'
  BY <1>2 DEF Marshal, disk, memory, Settled, Load
<1>4. PICK half \in {"shares", "faces"}, new \in ShareLists \cup Profiles :
        writer' = [writer EXCEPT ![r] = [at |-> "marshalled", half |-> half,
                                         doc |-> Edited(half, new), holds |-> "nothing"]]
  BY DEF Marshal
<1>5. writer'[r] = [at |-> "marshalled", half |-> half, doc |-> Edited(half, new),
                    holds |-> "nothing"]
  BY <1>4 DEF SettingsTypeOK
<1>6. stored' = stored
  BY DEF Marshal, memory
<1>7. Standing(writer[r])'
  BY <1>3, <1>5, <1>6 DEF Standing, Prepared, Edited
<1>8. \A q \in Requests \ {r} : writer'[q].at = "idle"
  BY <1>1, <1>4 DEF Writing, SettingsTypeOK
<1> QED
  BY <1>3, <1>5, <1>7, <1>8, LoneStep

LEMMA LoneFacts ==
  ASSUME StoreInv, ~ raced, NEW r \in Requests, writer[r].at # "idle"
  PROVE  /\ \A q \in Requests \ {r} : writer[q].at = "idle"
         /\ onFile # Torn /\ Standing(writer[r])
<1>1. r \in Writing
  BY DEF Writing
<1>2. Writing = {r} /\ onFile # Torn /\ Standing(writer[r])
  BY <1>1 DEF StoreInv
<1> QED
  BY <1>2 DEF Writing

\* A lone request goes on: one step per action.
LEMMA WriteStepStands ==
  ASSUME SettingsTypeOK, StoreInv, ~ raced', NEW r \in Requests, WriteStep(r)
  PROVE  StoreInv'
<1> DEFINE w == writer[r]
<1>a. ~ raced /\ w.at # "idle"
  <2>1. w.at # "idle"
    BY DEF WriteStep, OpenTmp, WriteTmp, RenameTmp, RemoveTmp, Remember, ReadBack, GoLive
  <2>2. raced' = raced
    BY DEF WriteStep, OpenTmp, WriteTmp, RenameTmp, RemoveTmp, Remember, ReadBack, GoLive
  <2> QED
    BY <2>1, <2>2
<1>b. \A q \in Requests \ {r} : writer[q].at = "idle"
  BY <1>a, LoneFacts
<1>c. onFile # Torn /\ Standing(w)
  BY <1>a, LoneFacts
<1>d. w \in Write /\ w.doc \in Document
  BY DEF SettingsTypeOK, Write
<1>e. w.doc # Absent /\ w.doc # Torn /\ Load(w.doc) = w.doc
  BY <1>d, DocumentIsWhole, Agreed
<1> USE DEF SettingsTypeOK
<1>1. CASE OpenTmp(r)
  <2>1. Settled /\ Prepared(w)
    BY <1>1, <1>c DEF OpenTmp, Standing
  <2>2. onFile' = onFile /\ Settled'
    BY <1>1, <2>1 DEF OpenTmp, memory, Settled, Load
  <2>3. \A q \in Requests \ {r} : writer'[q].at = "idle"
    BY <1>1, <1>b DEF OpenTmp, Fail
  <2>4. \/ writer'[r] = NoWrite
        \/ onTmp' = Torn /\ writer'[r] = [w EXCEPT !.at = "open", !.holds = "tmp"]
    BY <1>1 DEF OpenTmp, Fail
  <2>5. stored' = stored
    BY <1>1 DEF OpenTmp, memory
  <2>6. writer'[r].at # "idle" => Standing(writer[r])'
    <3>1. CASE writer'[r] = NoWrite
      BY <3>1 DEF NoWrite
    <3>2. CASE onTmp' = Torn /\ writer'[r] = [w EXCEPT !.at = "open", !.holds = "tmp"]
      <4>1. /\ writer'[r].at = "open" /\ writer'[r].holds = "tmp"
            /\ writer'[r].half = w.half /\ writer'[r].doc = w.doc
        BY <3>2, <1>d DEF Write
      <4> QED
        BY <2>1, <2>2, <2>5, <3>2, <4>1 DEF Standing, Prepared
    <3> QED
      BY <2>4, <3>1, <3>2
  <2> QED
    BY <1>c, <2>2, <2>3, <2>6, LoneStep
<1>2. CASE WriteTmp(r)
  <2>1. Settled /\ Prepared(w) /\ w.holds = "tmp" /\ onTmp = Torn
    BY <1>2, <1>c DEF WriteTmp, Standing
  <2>2. onFile' = onFile
    BY <1>2, <2>1 DEF WriteTmp, SetText
  <2>3. Settled' /\ stored' = stored
    BY <1>2, <2>1, <2>2 DEF WriteTmp, memory, Settled, Load
  <2>4. \A q \in Requests \ {r} : writer'[q].at = "idle"
    BY <1>2, <1>b DEF WriteTmp, At, Fail
  <2>5. \/ writer'[r] = NoWrite
        \/ onTmp' = w.doc /\ writer'[r] = [w EXCEPT !.at = "written"]
    BY <1>2, <2>1 DEF WriteTmp, SetText, At, Fail
  <2>6. writer'[r].at # "idle" => Standing(writer[r])'
    <3>1. CASE writer'[r] = NoWrite
      BY <3>1 DEF NoWrite
    <3>2. CASE onTmp' = w.doc /\ writer'[r] = [w EXCEPT !.at = "written"]
      <4>1. /\ writer'[r].at = "written"
            /\ writer'[r].half = w.half /\ writer'[r].doc = w.doc
        BY <3>2, <1>d DEF Write
      <4> QED
        BY <2>1, <2>3, <3>2, <4>1 DEF Standing, Prepared
    <3> QED
      BY <2>5, <3>1, <3>2
  <2> QED
    BY <1>c, <2>2, <2>3, <2>4, <2>6, LoneStep
<1>3. CASE RenameTmp(r)
  <2>1. Settled /\ Prepared(w) /\ onTmp = w.doc /\ stored' = stored /\ live' = live
    BY <1>3, <1>c DEF RenameTmp, Standing, memory
  <2>2. \/ /\ onFile' = w.doc
           /\ writer' = [q \in Requests |-> [Moved(writer[q]) EXCEPT
                           !.at = IF q = r THEN "renamed" ELSE writer[q].at]]
        \/ onFile' = onFile /\ writer' = [writer EXCEPT ![r].at = "cleaning"]
    BY <1>3, <2>1 DEF RenameTmp, At, disk
  <2>3. CASE /\ onFile' = w.doc
             /\ writer' = [q \in Requests |-> [Moved(writer[q]) EXCEPT
                             !.at = IF q = r THEN "renamed" ELSE writer[q].at]]
    <3>1. Moved(w) \in Write /\ Moved(w).half = w.half /\ Moved(w).doc = w.doc
      BY <1>d DEF Moved, Write
    <3>2. writer'[r].at = "renamed" /\ writer'[r].half = w.half /\ writer'[r].doc = w.doc
      BY <2>3, <3>1 DEF Write
    <3>3. ASSUME NEW q \in Requests \ {r} PROVE writer'[q].at = "idle"
      <4>1. Moved(writer[q]) \in Write
        BY DEF Moved, Write
      <4> QED
        BY <2>3, <4>1, <1>b DEF Write
    <3>4. Standing(writer[r])'
      BY <2>1, <2>3, <3>2 DEF Standing, Settled, Prepared
    <3> QED
      BY <1>e, <2>3, <3>2, <3>3, <3>4, LoneStep
  <2>4. CASE onFile' = onFile /\ writer' = [writer EXCEPT ![r].at = "cleaning"]
    <3>1. writer'[r] = [w EXCEPT !.at = "cleaning"]
      BY <2>4
    <3>2. Standing(writer[r])'
      BY <2>1, <2>4, <3>1, <1>d DEF Standing, Settled, Prepared, Load, Write
    <3>3. writer'[r].at # "idle"
      BY <3>1, <1>d DEF Write
    <3>4. \A q \in Requests \ {r} : writer'[q].at = "idle"
      BY <2>4, <1>b
    <3> QED
      BY <1>c, <2>4, <3>2, <3>3, <3>4, LoneStep
  <2> QED
    BY <2>2, <2>3, <2>4
<1>4. CASE RemoveTmp(r)
  <2>1. Settled
    BY <1>4, <1>c DEF RemoveTmp, Standing
  <2>2. onFile' = onFile /\ Settled'
    BY <1>4, <2>1 DEF RemoveTmp, memory, Settled, Load
  <2>3. ASSUME NEW q \in Requests \ {r} PROVE writer'[q].at = "idle"
    BY <1>4, <1>b DEF RemoveTmp, Write
  <2>4. writer'[r].at = "idle"
    BY <1>4 DEF RemoveTmp, NoWrite
  <2> QED
    BY <1>c, <2>2, <2>3, <2>4, LoneStep
<1>5. CASE Remember(r)
  <2>1. onFile = w.doc /\ live = stored.shares /\ Prepared(w) /\ onFile' = onFile /\ live' = live
    BY <1>5, <1>c DEF Remember, Standing, disk
  <2>2. stored' = w.doc
    <3>1. CASE w.half = "shares"
      <4>1. stored' = [stored EXCEPT !.shares = w.doc.shares]
        BY <1>5, <3>1 DEF Remember
      <4> QED
        BY <2>1, <3>1, <4>1, <1>d, HalfReplaced DEF Prepared
    <3>2. CASE w.half = "faces"
      <4>1. stored' = [stored EXCEPT !.faces = w.doc.faces]
        BY <1>5, <3>2 DEF Remember
      <4> QED
        BY <2>1, <3>2, <4>1, <1>d, HalfReplaced DEF Prepared
    <3> QED
      BY <3>1, <3>2, <1>d DEF Write
  <2>3. \A q \in Requests \ {r} : writer'[q].at = "idle"
    BY <1>5, <1>b DEF Remember
  <2>4. CASE w.half = "shares"
    <3>1. writer'[r] = [w EXCEPT !.at = "publishing"]
      BY <1>5, <2>4 DEF Remember
    <3>2. writer'[r].at = "publishing"
      BY <3>1, <1>d DEF Write
    <3>3. Standing(writer[r])'
      BY <2>1, <2>2, <3>2 DEF Standing
    <3> QED
      BY <1>c, <2>1, <2>3, <3>2, <3>3, LoneStep
  <2>5. CASE w.half = "faces"
    <3>1. writer'[r].at = "idle"
      BY <1>5, <2>5 DEF Remember, NoWrite
    <3>2. Settled'
      BY <2>1, <2>2, <2>5, <1>e DEF Settled, Prepared, Load
    <3> QED
      BY <1>c, <2>1, <2>3, <3>1, <3>2, LoneStep
  <2> QED
    BY <2>4, <2>5, <1>d DEF Write
<1>6. CASE ReadBack(r)
  <2>1. onFile = stored /\ onFile' = onFile /\ stored' = stored
    BY <1>6, <1>c DEF ReadBack, Standing, disk, memory
  <2>2. writer'[r] = [w EXCEPT !.at = "going live", !.doc.shares = stored.shares]
    BY <1>6 DEF ReadBack
  <2>3. writer'[r].at = "going live" /\ writer'[r].doc.shares = stored.shares
    BY <2>2, <1>d DEF Write, Document
  <2>4. Standing(writer[r])'
    BY <2>1, <2>3 DEF Standing
  <2>5. \A q \in Requests \ {r} : writer'[q].at = "idle"
    BY <1>6, <1>b DEF ReadBack
  <2> QED
    BY <1>c, <2>1, <2>3, <2>4, <2>5, LoneStep
<1>7. CASE GoLive(r)
  <2>1. onFile = stored /\ onFile' = onFile /\ stored' = stored /\ live' = stored.shares
    BY <1>7, <1>c DEF GoLive, Standing, disk
  <2>2. Settled'
    BY <2>1, Agreed DEF Settled, Load
  <2>3. \A q \in Requests \ {r} : writer'[q].at = "idle"
    BY <1>7, <1>b DEF GoLive
  <2>4. writer'[r].at = "idle"
    BY <1>7 DEF GoLive, NoWrite
  <2> QED
    BY <1>c, <2>1, <2>2, <2>3, <2>4, LoneStep
<1> QED
  BY <1>1, <1>2, <1>3, <1>4, <1>5, <1>6, <1>7 DEF WriteStep

LEMMA StoreInvInit == SettingsInit => StoreInv
BY SettingsAssumption DEF SettingsInit, StoreInv, Settled, Writing, NoWrite

LEMMA StoreInvNext == SettingsTypeOK /\ StoreInv /\ [SettingsNext]_settingsVars => StoreInv'
<1> SUFFICES ASSUME SettingsTypeOK, StoreInv, [SettingsNext]_settingsVars, ~ raced'
             PROVE  StoreInv'
  BY DEF StoreInv
<1>1. ASSUME NEW r \in Requests, Marshal(r) PROVE StoreInv'
  BY <1>1, MarshalStands
<1>2. ASSUME NEW r \in Requests, WriteStep(r) PROVE StoreInv'
  BY <1>2, WriteStepStands
<1>3. CASE Restart
  <2>1. onFile' = onFile /\ onFile # Torn
    BY <1>3 DEF Restart, disk, StoreInv
  <2>2. Writing' = {}
    BY <1>3 DEF Restart, Writing, NoWrite
  <2>3. Settled'
    BY <1>3, <2>1 DEF Restart, Settled, Load
  <2> QED
    BY <2>1, <2>2, <2>3 DEF StoreInv
<1>4. CASE UNCHANGED settingsVars
  <2>1. UNCHANGED <<onFile, onTmp, stored, live, writer, raced>>
    BY <1>4 DEF settingsVars, disk, memory
  <2> QED
    BY <2>1 DEF StoreInv, Writing, Settled, Standing, Prepared, Load
<1> QED
  BY <1>1, <1>2, <1>3, <1>4 DEF SettingsNext

----------------------------------------------------------------------------
(* The theorems                                                            *)

\* Types and the invariant of a lone request, together inductive.
LEMMA StoreInvariant == SettingsSpec => [](SettingsTypeOK /\ StoreInv)
<1>1. SettingsInit => SettingsTypeOK /\ StoreInv
  BY SettingsInitTyped, StoreInvInit
<1>2. SettingsTypeOK /\ StoreInv /\ [SettingsNext]_settingsVars => (SettingsTypeOK /\ StoreInv)'
  BY SettingsNextTyped, StoreInvNext
<1> QED
  BY <1>1, <1>2, PTL DEF SettingsSpec

\* settings.json is absent or whole at every instant as long as no two requests met,
\* wherever a call fails or a crash strikes.
THEOREM FileStaysWhole == SettingsSpec => []FileIsWhole
<1>1. StoreInv => FileIsWhole
  BY DEF StoreInv, FileIsWhole
<1> QED
  BY <1>1, StoreInvariant, PTL

\* As long as no two requests met, the file, the memory and the live share list agree
\* whenever no request is in flight: SetShares and SetFaces leave no half behind.
THEOREM StoreAgrees == SettingsSpec => []SettingsAgree
<1>1. StoreInv => SettingsAgree
  BY DEF StoreInv, SettingsAgree, Settled
<1> QED
  BY <1>1, StoreInvariant, PTL

\* The rename of a lone request puts its half into the register; no other step of a
\* lone request changes what a restart would find.
LEMMA WriteStepRefines ==
  ASSUME SettingsTypeOK, StoreInv, ~ raced, NEW r \in Requests, WriteStep(r)
  PROVE  Register!Put \/ UNCHANGED <<Load(onFile), raced>>
<1> DEFINE w == writer[r]
<1>1. raced' = raced
  BY DEF WriteStep, OpenTmp, WriteTmp, RenameTmp, RemoveTmp, Remember, ReadBack, GoLive
<1>2. w.at # "idle"
  BY DEF WriteStep, OpenTmp, WriteTmp, RenameTmp, RemoveTmp, Remember, ReadBack, GoLive
<1>3. Standing(w)
  BY <1>2, LoneFacts
<1>4. CASE onFile' = onFile
  BY <1>1, <1>4 DEF Load
<1>5. CASE WriteTmp(r)
  BY <1>3, <1>4, <1>5 DEF WriteTmp, SetText, Standing
<1>6. CASE RenameTmp(r) /\ onFile' # onFile
  <2>1. onFile' = onTmp /\ w.at = "written"
    BY <1>6 DEF RenameTmp, disk
  <2>2. onFile' = w.doc /\ Load(onFile) = stored /\ Prepared(w)
    BY <1>3, <2>1 DEF Standing, Settled
  <2>3. w \in Write /\ w.doc \in Document /\ stored \in Document
    BY DEF SettingsTypeOK, Write
  <2>4. Load(onFile)' = w.doc
    BY <2>2, <2>3, DocumentIsWhole DEF Load
  <2>5. w.doc.shares \in ShareLists /\ w.doc.faces \in Profiles
    BY <2>3 DEF Document
  <2>6. \/ w.doc = [stored EXCEPT !.shares = w.doc.shares]
        \/ w.doc = [stored EXCEPT !.faces = w.doc.faces]
    BY <2>2, <2>3, HalfReplaced DEF Prepared
  <2>7. \/ \E l \in ShareLists : Load(onFile)' = [Load(onFile) EXCEPT !.shares = l]
        \/ \E f \in Profiles : Load(onFile)' = [Load(onFile) EXCEPT !.faces = f]
    BY <2>2, <2>4, <2>5, <2>6
  <2> QED
    BY <1>1, <2>7 DEF Register!Put
<1>7. CASE OpenTmp(r) \/ RemoveTmp(r) \/ Remember(r) \/ ReadBack(r) \/ GoLive(r)
  <2>1. onFile' = onFile
    BY <1>7 DEF OpenTmp, RemoveTmp, Remember, ReadBack, GoLive, disk
  <2> QED
    BY <1>4, <2>1
<1> QED
  BY <1>4, <1>5, <1>6, <1>7 DEF WriteStep

LEMMA StepRefines ==
  SettingsTypeOK /\ SettingsTypeOK' /\ StoreInv /\ [SettingsNext]_settingsVars
    => [Register!Put \/ Register!Meet \/ Register!Anything]_<<Load(onFile), raced>>
<1> SUFFICES ASSUME SettingsTypeOK, SettingsTypeOK', StoreInv, [SettingsNext]_settingsVars
             PROVE  \/ Register!Put \/ Register!Meet \/ Register!Anything
                    \/ UNCHANGED <<Load(onFile), raced>>
  OBVIOUS
<1>1. CASE raced
  <2>1. raced' = TRUE
    <3>1. raced = TRUE
      BY <1>1 DEF SettingsTypeOK
    <3>2. ASSUME NEW r \in Requests, Marshal(r) PROVE raced' = TRUE
      BY <3>1, <3>2 DEF Marshal
    <3>3. ASSUME NEW r \in Requests, WriteStep(r) PROVE raced' = raced
      BY <3>3 DEF WriteStep, OpenTmp, WriteTmp, RenameTmp, RemoveTmp, Remember, ReadBack, GoLive
    <3>4. Restart \/ UNCHANGED settingsVars => raced' = raced
      BY DEF Restart, settingsVars
    <3> QED
      BY <3>1, <3>2, <3>3, <3>4 DEF SettingsNext
  <2>2. Load(onFile)' \in Document
    BY SettingsAssumption DEF SettingsTypeOK, Load, Text, Empty, Document
  <2> QED
    BY <1>1, <2>1, <2>2 DEF Register!Anything, Document
<1>2. CASE ~ raced
  <2>1. ASSUME NEW r \in Requests, Marshal(r)
        PROVE  Register!Meet \/ UNCHANGED <<Load(onFile), raced>>
    <3>1. Load(onFile)' = Load(onFile)
      BY <2>1 DEF Marshal, disk, Load
    <3>2. raced' = TRUE \/ raced' = raced
      <4>1. raced = FALSE /\ raced' \in BOOLEAN
        BY <1>2 DEF SettingsTypeOK
      <4> QED
        BY <4>1
    <3> QED
      BY <3>1, <3>2 DEF Register!Meet
  <2>2. ASSUME NEW r \in Requests, WriteStep(r)
        PROVE  Register!Put \/ UNCHANGED <<Load(onFile), raced>>
    BY <1>2, <2>2, WriteStepRefines
  <2>3. CASE Restart
    BY <2>3 DEF Restart, disk, Load
  <2>4. CASE UNCHANGED settingsVars
    BY <2>4 DEF settingsVars, disk, Load
  <2> QED
    BY <2>1, <2>2, <2>3, <2>4 DEF SettingsNext
<1> QED
  BY <1>1, <1>2

\* The store implements the register: SetShares and SetFaces replace their half at the
\* rename and at no other step, and a crash at any step loses nothing that was renamed.
THEOREM StoreIsRegister == SettingsSpec => ActsAsRegister
<1>1. SettingsInit => Register!RegisterInit
  BY DEF SettingsInit, Register!RegisterInit, Load
<1>2. SettingsTypeOK /\ SettingsTypeOK' /\ StoreInv /\ [SettingsNext]_settingsVars
        => [Register!Put \/ Register!Meet \/ Register!Anything]_<<Load(onFile), raced>>
  BY StepRefines
<1> QED
  BY <1>1, <1>2, StoreInvariant, PTL DEF SettingsSpec, ActsAsRegister, Register!RegisterSpec

=============================================================================
