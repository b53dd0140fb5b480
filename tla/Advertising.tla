---------------------------- MODULE Advertising ----------------------------
(***************************************************************************)
(* BLE_Application.c: the name of the device and the data it advertises.   *)
(* The main loop builds the data in g_au8AdvData when it enters            *)
(* OPERATIONAL; the interrupt before a radio event hands them to the       *)
(* SoftDevice.  Storage composes this module with the commands of the      *)
(* phone.                                                                  *)
(*                                                                         *)
(* A name is the number of the command that set it, 0 the name that        *)
(* vGapParamsInit makes of the address.  Advertising data are the name in  *)
(* them: the measures beside it, and the default data of                   *)
(* vAdvertisingInit, which have none, make no difference here.             *)
(***************************************************************************)
EXTENDS Integers

Default == 0
Torn == -1                 \* cleared, or in part written
Name == Nat
AdvData == Name \union {Torn}

VARIABLES
  pc,                      \* where the main loop is, "idle": between two jobs
  g_achBleDeviceName,
  g_au8AdvData,            \* with g_u8SizeAdvData
  g_bHasToSetAdvertise,
  air,                     \* the advertising data the SoftDevice has
  entries,                 \* to OPERATIONAL
  \* History, read by no action of the code:
  advHit                   \* mishaps whose traces may be on air, or come there

advVars == <<g_achBleDeviceName, g_au8AdvData, g_bHasToSetAdvertise, air,
             entries, advHit>>

\* "torn": data are built while those before still wait for the radio.
\* "stale": the name changes while they do.
AdvMishap == {"torn", "stale"}

-----------------------------------------------------------------------------
\* Operators whose comment begins with "Mutant" are wrong on purpose: with
\* one of them in place of the definition that follows, a property is violated.

\* vGapParamsInit and vAdvertisingInit.
AdvInit ==
  /\ g_achBleDeviceName = Default
  /\ g_au8AdvData = Torn /\ g_bHasToSetAdvertise = FALSE
  /\ air = Default
  /\ advHit = {}

AdvReset ==
  /\ g_achBleDeviceName' = Default
  /\ g_au8AdvData' = Torn /\ g_bHasToSetAdvertise' = FALSE
  /\ air' = Default
  /\ advHit' = {}
  /\ UNCHANGED entries

\* vOperational_Entry calls vBLE_AdvDataUpdate, which clears the buffer, ...
vBLE_AdvDataUpdate ==
  /\ pc = "idle"
  /\ pc' = "advFill"
  /\ g_au8AdvData' = Torn
  /\ entries' = entries + 1
  /\ advHit' = IF g_bHasToSetAdvertise THEN advHit \union {"torn"} ELSE advHit
  /\ UNCHANGED <<g_achBleDeviceName, g_bHasToSetAdvertise, air>>

\* ... writes the measures, the name and the size, and lets the radio have them.
AdvDataFill ==
  /\ pc = "advFill"
  /\ pc' = "idle"
  /\ g_au8AdvData' = g_achBleDeviceName
  /\ g_bHasToSetAdvertise' = TRUE
  /\ UNCHANGED <<g_achBleDeviceName, air, entries, advHit>>

\* The interrupt.  The SoftDevice may refuse torn data, and nobody hears of it.
vBleNotificationRadio ==
  /\ g_bHasToSetAdvertise
  /\ g_bHasToSetAdvertise' = FALSE
  /\ \/ air' = g_au8AdvData
     \/ g_au8AdvData = Torn /\ UNCHANGED air
  /\ advHit' = IF air' = g_achBleDeviceName THEN {} ELSE advHit
  /\ UNCHANGED <<pc, g_achBleDeviceName, g_au8AdvData, entries>>

\* Mutant of vBLE_UpdateName: the SoftDevice keeps the data it has.
vBLE_UpdateNameOnly(name) ==
  /\ g_achBleDeviceName' = name
  /\ advHit' = IF g_bHasToSetAdvertise THEN {"stale"} ELSE {}
  /\ UNCHANGED <<g_au8AdvData, g_bHasToSetAdvertise, air, entries>>

\* The name, and the default advertising data with it.  g_au8AdvData and its
\* flag stay as they are.
vBLE_UpdateName(name) ==
  /\ g_achBleDeviceName' = name
  /\ air' = name
  /\ advHit' = IF g_bHasToSetAdvertise THEN {"stale"} ELSE {}
  /\ UNCHANGED <<g_au8AdvData, g_bHasToSetAdvertise, entries>>

-----------------------------------------------------------------------------
AdvTypeOK ==
  /\ g_achBleDeviceName \in Name
  /\ g_au8AdvData \in AdvData
  /\ g_bHasToSetAdvertise \in BOOLEAN
  /\ air \in AdvData
  /\ entries \in Nat
  /\ advHit \subseteq AdvMishap

\* What waits for the radio is whole, and holds the name of the device.
AdvBufferReady ==
  /\ g_bHasToSetAdvertise =>
       IF pc = "advFill" THEN "torn" \in advHit ELSE g_au8AdvData # Torn
  /\ g_bHasToSetAdvertise /\ pc # "advFill" /\ "stale" \notin advHit =>
       g_au8AdvData = g_achBleDeviceName

\* The data on air are whole, unless the main loop rebuilt them while those it
\* had built before still waited for the radio: vBLE_AdvDataUpdate does not
\* take the flag back before it clears the buffer.
AdvertisedWhole == "torn" \notin advHit => air # Torn

\* Outside of these mishaps the name on air is the name of the device at every
\* moment, between a change of name and the next entry to OPERATIONAL too.
\* "stale": the old data go on air after the new name did, and stay.
AdvertisedNameCurrent == advHit = {} => air = g_achBleDeviceName
=============================================================================
