---------------------------- MODULE ControlProofs ----------------------------
(***************************************************************************)
(* Two parts.  First, what every operation of ControllerModel keeps: a       *)
(* configuration that loads again, and a revision that tells snapshots apart.*)
(* Then the control path, from the clients to the file: ControlInv says      *)
(* where a request is until it is handled, whose answer a task waits for,    *)
(* and in which order snapshots travel; StoreInv adds what the files of the  *)
(* two savers hold, and that what was answered is in every file a crash can  *)
(* leave.                                                                    *)
(***************************************************************************)
EXTENDS Control, ControllerModel, FiniteSetTheorems, SequenceTheorems, TLAPS

(* A configuration that AppConfig::validate accepts, without counting.       *)
Named(config, zone) == {i \in 1..4 : config.zones[i].zone = zone}
OneEach(zones) ==
    \A zone \in ZoneIds : \E i \in 1..4 :
        zones[i].zone = zone /\ \A j \in 1..4 : zones[j].zone = zone => j = i

(* validate counts each zone once.                                           *)
LEMMA ValidMeansOneEach ==
    ASSUME NEW config \in Configs
    PROVE  Validate(config) = Valid
               <=> /\ config.version = CONFIG_VERSION /\ OneEach(config.zones)
                   /\ \A i \in 1..4 : config.zones[i].brightness <= 100
  <1>1. ASSUME NEW zone \in ZoneIds
        PROVE  ZoneCount(config, zone) = 1
                   <=> \E i \in 1..4 : Named(config, zone) = {i}
    <2>1. IsFiniteSet(Named(config, zone))
      <3>1. IsFiniteSet(1..4)
        BY FS_Interval, 1 \in Int, 4 \in Int
      <3>. QED  BY <3>1, FS_Subset DEF Named
    <2>2. Cardinality(Named(config, zone)) = 1 <=> \E i : Named(config, zone) = {i}
      BY <2>1, FS_Singleton
    <2>3. ASSUME NEW i, Named(config, zone) = {i} PROVE i \in 1..4
      BY <2>3 DEF Named
    <2>. QED  BY <2>2, <2>3 DEF ZoneCount, Named
  <1>2. ASSUME NEW zone \in ZoneIds, NEW i \in 1..4
        PROVE  Named(config, zone) = {i}
                   <=> /\ config.zones[i].zone = zone
                       /\ \A j \in 1..4 : config.zones[j].zone = zone => j = i
    BY DEF Named
  <1>3. (\A zone \in ZoneIds : ZoneCount(config, zone) = 1) <=> OneEach(config.zones)
    BY <1>1, <1>2 DEF OneEach
  <1>4. \A i \in 1..4 : config.zones[i].brightness \in Nat
    BY DEF Configs, ManualZones, Bytes
  <1>5. ValidationError("version") # Valid /\ ValidationError("zones") # Valid
        /\ ValidationError("brightness") # Valid
    BY DEF ValidationError, Valid
  <1>. QED  BY <1>3, <1>4, <1>5 DEF Validate
-----------------------------------------------------------------------------
(* A channel is computed without leaving 16 bits, fits 8, and a brightness   *)
(* that a configuration allows never makes it brighter than the colour.      *)
THEOREM ScaledChannelFits ==
    ASSUME NEW value \in Bytes, NEW brightness \in Bytes
    PROVE  /\ ScaledProduct(value, brightness) < 65536
           /\ ScaledChannel(value, brightness) \in Bytes
           /\ brightness <= 100 => ScaledChannel(value, brightness) <= value
           /\ brightness = 100 => ScaledChannel(value, brightness) = value
           /\ brightness = 0 => ScaledChannel(value, brightness) = 0
  <1>1. value \in 0..255 /\ brightness \in 0..255
    BY DEF Bytes
  <1>2. \A a, b, c \in Nat : b <= c => a * b \in Nat /\ a * b <= a * c
    BY SMT
  <1>3. value * brightness \in Nat /\ value * brightness <= value * 255
    BY <1>1, <1>2
  <1>4. brightness <= 100 => value * brightness <= value * 100
    BY <1>1, <1>2
  <1>5. brightness = 0 => value * brightness = 0
    BY <1>1
  <1> DEFINE p == value * brightness
  <1>7. /\ p \in Nat /\ p <= 65025 /\ (brightness <= 100 => p <= 100 * value)
        /\ (brightness = 100 => p = 100 * value) /\ (brightness = 0 => p = 0)
    BY <1>1, <1>3, <1>4, <1>5, SMT
  <1> HIDE DEF p
  <1>8. /\ (p + 50) \div 100 \in Nat /\ p + 50 < 65536
        /\ (brightness <= 100 => (p + 50) \div 100 <= value)
        /\ (brightness = 100 => (p + 50) \div 100 = value)
        /\ (brightness = 0 => (p + 50) \div 100 = 0)
    BY <1>1, <1>7, SMT
  <1>9. ScaledProduct(value, brightness) = p + 50
    BY DEF ScaledProduct, p
  <1> DEFINE q == (p + 50) \div 100
  <1>10. ScaledChannel(value, brightness) = IF q > 255 THEN 255 ELSE q
    BY <1>9 DEF ScaledChannel
  <1> HIDE DEF q
  <1>11. /\ q \in Nat /\ (brightness <= 100 => q <= value)
         /\ (brightness = 100 => q = value) /\ (brightness = 0 => q = 0)
    BY <1>8 DEF q
  <1>12. q > 255 \/ q <= 255
    BY <1>11
  <1>13. ScaledChannel(value, brightness) \in Bytes
    BY <1>10, <1>11, <1>12 DEF Bytes
  <1>14. q <= 255 => ScaledChannel(value, brightness) = q
    BY <1>10, <1>11
  <1>15. brightness <= 100 => q <= 255
    BY <1>1, <1>11
  <1>16. ScaledProduct(value, brightness) < 65536
    BY <1>8, <1>9
  <1>17. brightness <= 100 => ScaledChannel(value, brightness) <= value
    BY <1>11, <1>14, <1>15
  <1>18. brightness = 100 => ScaledChannel(value, brightness) = value
    BY <1>1, <1>11, <1>14, <1>15
  <1>19. brightness = 0 => ScaledChannel(value, brightness) = 0
    BY <1>1, <1>11, <1>14, <1>15
  <1>. QED  BY <1>13, <1>16, <1>17, <1>18, <1>19

(* The target of a manual configuration is a colour for every zone.          *)
LEMMA ManualTargetIsColors ==
    ASSUME NEW config \in Configs, OneEach(config.zones)
    PROVE  ManualTarget(config) \in [ZoneIds -> Rgb]
  <1>1. ASSUME NEW zone \in ZoneIds
        PROVE  ManualSetting(config, zone) \in ManualZones
    BY DEF OneEach, ManualSetting, Configs
  <1>2. ASSUME NEW color \in Rgb, NEW brightness \in Bytes
        PROVE  Scale(color, brightness) \in Rgb
    <2>1. color.r \in Bytes /\ color.g \in Bytes /\ color.b \in Bytes
      BY DEF Rgb
    <2>2. ASSUME NEW value \in Bytes PROVE ScaledChannel(value, brightness) \in Bytes
      BY ScaledChannelFits
    <2>. QED  BY <2>1, <2>2 DEF Scale, Rgb
  <1>3. BlackRgb \in Rgb
    BY DEF BlackRgb, Rgb, Bytes
  <1>. QED  BY <1>1, <1>2, <1>3 DEF ManualTarget, AllDark, ManualZones

-----------------------------------------------------------------------------
(* An update that validate_manual_updates lets through sets no brightness    *)
(* above 100.                                                                *)
LEMMA ValidUpdatesAreDim ==
    ASSUME NEW updates \in Seq(ManualZones), ValidateManualUpdates(updates) = Valid
    PROVE  \A i \in DOMAIN updates : updates[i] \in ManualZones /\ updates[i].brightness <= 100
  <1>1. ValidationError("empty") # Valid /\ ValidationError("brightness") # Valid
        /\ ValidationError("duplicate") # Valid
    BY DEF ValidationError, Valid
  <1>2. {i \in DOMAIN updates : Offends(updates, i)} = {}
    BY <1>1 DEF ValidateManualUpdates
  <1>3. \A i \in DOMAIN updates : ~(updates[i].brightness > 100)
    BY <1>2 DEF Offends
  <1>4. ASSUME NEW i \in DOMAIN updates
        PROVE  updates[i] \in ManualZones /\ updates[i].brightness <= 100
    <2>1. updates[i] \in ManualZones
      OBVIOUS
    <2>2. updates[i].brightness \in 0..255
      BY <2>1 DEF ManualZones, Bytes
    <2>3. ~(updates[i].brightness > 100)
      BY <1>3
    <2>4. \A b \in 0..255 : ~(b > 100) => b <= 100
      OBVIOUS
    <2>5. updates[i].brightness <= 100
      BY <2>2, <2>3, <2>4
    <2>. QED  BY <2>1, <2>5
  <1>. QED  BY <1>4

(* Updating leaves each zone where it is.                                    *)
LEMMA UpdatedZonesKeepPlaces ==
    ASSUME NEW zones \in [1..4 -> ManualZones], NEW updates \in Seq(ManualZones), NEW i \in 1..4
    PROVE  /\ UpdatedZones(zones, updates) \in [1..4 -> ManualZones]
           /\ UpdatedZones(zones, updates)[i].zone = zones[i].zone
           /\ UpdatedZones(zones, updates)[i] # zones[i] =>
                  \E k \in DOMAIN updates : UpdatedZones(zones, updates)[i] = updates[k]
  <1>1. \A k \in DOMAIN updates : updates[k] \in ManualZones
    OBVIOUS
  <1>2. ASSUME NEW j \in 1..4
        PROVE  /\ UpdatedZones(zones, updates)[j] \in ManualZones
               /\ UpdatedZones(zones, updates)[j].zone = zones[j].zone
               /\ UpdatedZones(zones, updates)[j] # zones[j] =>
                      \E k \in DOMAIN updates : UpdatedZones(zones, updates)[j] = updates[k]
    <2> DEFINE named == Naming(updates, zones[j].zone)
    <2>1. CASE named = {}
      BY <2>1 DEF UpdatedZones
    <2>2. CASE named # {}
      <3>1. PICK k \in named : UpdatedZones(zones, updates)[j] = updates[k]
        BY <2>2 DEF UpdatedZones
      <3>2. k \in DOMAIN updates /\ updates[k].zone = zones[j].zone
        BY DEF Naming
      <3>. QED  BY <1>1, <3>1, <3>2
    <2>. QED  BY <2>1, <2>2
  <1>3. DOMAIN UpdatedZones(zones, updates) = 1..4
    BY DEF UpdatedZones
  <1>4. UpdatedZones(zones, updates) = [j \in 1..4 |-> UpdatedZones(zones, updates)[j]]
    BY DEF UpdatedZones
  <1>. QED  BY <1>2, <1>3, <1>4
-----------------------------------------------------------------------------
(* A model whose configuration validates.                                    *)
Sound(model) == model \in Models /\ Validate(model.config) = Valid

(* Advancing changes the revision alone.                                     *)
LEMMA AdvanceChangesRevision ==
    ASSUME NEW model \in Models, NEW changed \in BOOLEAN
    PROVE  /\ AdvanceIf(model, changed) \in Models
           /\ AdvanceIf(model, changed) = [model EXCEPT !.revision =
                  IF changed THEN AdvancedRevision(model.revision) ELSE model.revision]
           /\ AdvanceIf(model, TRUE) = Advance(model)
           /\ AdvanceIf(model, changed).config = model.config
           /\ SnapshotBody(AdvanceIf(model, changed)) = SnapshotBody(model)
  <1>1. model.revision \in 0..RevisionMax
    BY DEF Models
  <1>2. AdvancedRevision(model.revision) \in 0..RevisionMax
    BY <1>1, RevisionMaxAssumption DEF AdvancedRevision
  <1>3. model = [model EXCEPT !.revision = model.revision]
    BY DEF Models
  <1>4. AdvanceIf(model, changed) = [model EXCEPT !.revision =
            IF changed THEN AdvancedRevision(model.revision) ELSE model.revision]
    BY <1>3 DEF AdvanceIf, Advance
  <1>5. [model EXCEPT !.revision = AdvancedRevision(model.revision)] \in Models
    BY <1>2 DEF Models
  <1>6. \A r : [model EXCEPT !.revision = r].config = model.config
            /\ SnapshotBody([model EXCEPT !.revision = r]) = SnapshotBody(model)
    BY DEF Models, SnapshotBody
  <1>. QED  BY <1>3, <1>4, <1>5, <1>6 DEF AdvanceIf, Advance

(* Changing what a configuration does not validate, or its zones' colours    *)
(* and brightness, keeps it valid.                                           *)
LEMMA WithZonesKeepsValid ==
    ASSUME NEW model, Sound(model), NEW updates \in Seq(ManualZones),
           ValidateManualUpdates(updates) = Valid
    PROVE  Sound(WithZones(model, UpdatedZones(model.config.zones, updates)))
  <1> DEFINE zones == UpdatedZones(model.config.zones, updates)
             config == [model.config EXCEPT !.zones = zones]
  <1>1. model \in Models /\ model.config \in Configs /\ model.config.zones \in [1..4 -> ManualZones]
    BY DEF Sound, Models, Configs
  <1>2. /\ zones \in [1..4 -> ManualZones]
        /\ \A i \in 1..4 : zones[i].zone = model.config.zones[i].zone
        /\ \A i \in 1..4 : zones[i] = model.config.zones[i]
               \/ \E k \in DOMAIN updates : zones[i] = updates[k]
    BY <1>1, UpdatedZonesKeepPlaces, 1 \in 1..4
  <1>3. /\ model.config.version = CONFIG_VERSION /\ OneEach(model.config.zones)
        /\ \A i \in 1..4 : model.config.zones[i].brightness <= 100
    BY <1>1, ValidMeansOneEach DEF Sound
  <1> HIDE DEF zones
  <1>4. config \in Configs /\ config.version = model.config.version /\ config.zones = zones
    BY <1>1, <1>2 DEF Configs
  <1>5. OneEach(zones)
    <2>1. ASSUME NEW zone \in ZoneIds
          PROVE  \E i \in 1..4 :
                     zones[i].zone = zone /\ \A j \in 1..4 : zones[j].zone = zone => j = i
      <3>1. PICK i \in 1..4 :
                /\ model.config.zones[i].zone = zone
                /\ \A j \in 1..4 : model.config.zones[j].zone = zone => j = i
        BY <1>3 DEF OneEach
      <3>2. zones[i].zone = zone /\ \A j \in 1..4 : zones[j].zone = zone => j = i
        BY <1>2, <3>1
      <3>. QED  BY <3>2
    <2>. QED  BY <2>1 DEF OneEach
  <1>6. \A i \in 1..4 : zones[i].brightness <= 100
    BY <1>2, <1>3, ValidUpdatesAreDim
  <1>7. Validate(config) = Valid
    BY <1>3, <1>4, <1>5, <1>6, ValidMeansOneEach
  <1> HIDE DEF config
  <1>8. /\ [model EXCEPT !.config = config] \in Models
        /\ [model EXCEPT !.config = config].config = config
    BY <1>1, <1>4 DEF Models
  <1>9. [model EXCEPT !.config.zones = zones] = [model EXCEPT !.config = config]
    BY <1>1 DEF Models, config
  <1>10. Sound(AdvanceIf([model EXCEPT !.config = config], zones # model.config.zones))
    BY <1>7, <1>8, AdvanceChangesRevision DEF Sound
  <1>. QED  BY <1>9, <1>10 DEF WithZones, zones
(* The other fields of the model and of the configuration are not validated. *)
LEMMA OtherFieldsKeepValid ==
    ASSUME NEW model, Sound(model), NEW changed \in BOOLEAN
    PROVE  /\ \A mode \in {"manual", "content"} :
                  Sound(AdvanceIf([model EXCEPT !.config.mode = mode], changed))
           /\ \A flag \in BOOLEAN :
                  /\ Sound(AdvanceIf([model EXCEPT !.config.lights = flag], changed))
                  /\ Sound(AdvanceIf([model EXCEPT !.config.setup = flag], changed))
                  /\ Sound(AdvanceIf([model EXCEPT !.pending = flag], changed))
           /\ \A health \in Health :
                  Sound(AdvanceIf([model EXCEPT !.writer = health], changed))
           /\ \A colors \in [ZoneIds -> Rgb] :
                  Sound(AdvanceIf([model EXCEPT !.confirmed = colors, !.pending = FALSE,
                                               !.writer = "ready"], changed))
  <1>1. model \in Models /\ model.config \in Configs /\ Validate(model.config) = Valid
    BY DEF Sound, Models
  <1>2. ASSUME NEW config \in Configs, config.version = model.config.version,
               config.zones = model.config.zones
        PROVE  Sound(AdvanceIf([model EXCEPT !.config = config], changed))
    <2>1. Validate(config) = Valid
      BY <1>1, <1>2, ValidMeansOneEach
    <2>2. [model EXCEPT !.config = config] \in Models
          /\ [model EXCEPT !.config = config].config = config
      BY <1>1 DEF Models
    <2>. QED  BY <2>1, <2>2, AdvanceChangesRevision DEF Sound
  <1>3. ASSUME NEW next \in Models, next.config = model.config
        PROVE  Sound(AdvanceIf(next, changed))
    BY <1>1, <1>3, AdvanceChangesRevision DEF Sound
  <1>4. ASSUME NEW mode \in {"manual", "content"}
        PROVE  Sound(AdvanceIf([model EXCEPT !.config.mode = mode], changed))
    <2> DEFINE config == [model.config EXCEPT !.mode = mode]
    <2>1. config \in Configs /\ config.version = model.config.version
          /\ config.zones = model.config.zones
      BY <1>1 DEF Configs
    <2>2. [model EXCEPT !.config.mode = mode] = [model EXCEPT !.config = config]
      BY <1>1 DEF Models
    <2>. QED  BY <1>2, <2>1, <2>2
  <1>5. ASSUME NEW flag \in BOOLEAN
        PROVE  Sound(AdvanceIf([model EXCEPT !.config.lights = flag], changed))
    <2> DEFINE config == [model.config EXCEPT !.lights = flag]
    <2>1. config \in Configs /\ config.version = model.config.version
          /\ config.zones = model.config.zones
      BY <1>1 DEF Configs
    <2>2. [model EXCEPT !.config.lights = flag] = [model EXCEPT !.config = config]
      BY <1>1 DEF Models
    <2>. QED  BY <1>2, <2>1, <2>2
  <1>6. ASSUME NEW flag \in BOOLEAN
        PROVE  Sound(AdvanceIf([model EXCEPT !.config.setup = flag], changed))
    <2> DEFINE config == [model.config EXCEPT !.setup = flag]
    <2>1. config \in Configs /\ config.version = model.config.version
          /\ config.zones = model.config.zones
      BY <1>1 DEF Configs
    <2>2. [model EXCEPT !.config.setup = flag] = [model EXCEPT !.config = config]
      BY <1>1 DEF Models
    <2>. QED  BY <1>2, <2>1, <2>2
  <1>7. ASSUME NEW flag \in BOOLEAN
        PROVE  /\ [model EXCEPT !.pending = flag] \in Models
               /\ [model EXCEPT !.pending = flag].config = model.config
    BY <1>1 DEF Models
  <1>8. ASSUME NEW health \in Health
        PROVE  /\ [model EXCEPT !.writer = health] \in Models
               /\ [model EXCEPT !.writer = health].config = model.config
    BY <1>1 DEF Models
  <1>9. ASSUME NEW colors \in [ZoneIds -> Rgb]
        PROVE  /\ [model EXCEPT !.confirmed = colors, !.pending = FALSE,
                                !.writer = "ready"] \in Models
               /\ [model EXCEPT !.confirmed = colors, !.pending = FALSE,
                                !.writer = "ready"].config = model.config
    BY <1>1 DEF Models, Health
  <1>. QED  BY <1>3, <1>4, <1>5, <1>6, <1>7, <1>8, <1>9

(* Every sequence of operations keeps a configuration that validates, so     *)
(* that the file which the service saves is one that its next start reads,   *)
(* and keeps the revision in its 64 bits.                                    *)
THEOREM OperationsKeepConfigValid ==
    ASSUME NEW model, Sound(model), NEW result \in Outcomes(model)
    PROVE  Sound(result.model)
  <1>1. model \in Models /\ model.config \in Configs
        /\ model.pending \in BOOLEAN /\ model.config.setup \in BOOLEAN
    BY DEF Sound, Models, Configs
  <1>2. CASE \E updates \in Seq(ManualZones) : result = ApplyManualUpdates(model, updates)
    <2>1. PICK updates \in Seq(ManualZones) : result = ApplyManualUpdates(model, updates)
      BY <1>2
    <2>2. CASE ValidateManualUpdates(updates) # Valid \/ model.config.mode = "content"
      BY <1>1, <2>1, <2>2 DEF ApplyManualUpdates
    <2>3. CASE ~(ValidateManualUpdates(updates) # Valid \/ model.config.mode = "content")
      BY <2>1, <2>3, WithZonesKeepsValid DEF ApplyManualUpdates
    <2>. QED  BY <2>2, <2>3
  <1>3. ASSUME NEW mode \in {"manual", "content"}, result = SetMode(model, mode)
        PROVE  Sound(result.model)
    <2>1. Sound(AdvanceIf([model EXCEPT !.config.mode = mode], TRUE))
      BY OtherFieldsKeepValid
    <2>. QED  BY <1>3, <2>1 DEF SetMode, AdvanceIf
  <1>4. ASSUME NEW enabled \in BOOLEAN, result = SetLightsEnabled(model, enabled)
        PROVE  Sound(result.model)
    <2>1. Sound(AdvanceIf([model EXCEPT !.config.lights = enabled], TRUE))
      BY OtherFieldsKeepValid
    <2>. QED  BY <1>4, <2>1 DEF SetLightsEnabled, AdvanceIf
  <1>5. ASSUME NEW colors \in [ZoneIds -> Rgb], result = ConfirmWrite(model, colors)
        PROVE  Sound(result.model)
    <2>1. \A changed \in BOOLEAN :
              Sound(AdvanceIf([model EXCEPT !.confirmed = colors, !.pending = FALSE,
                                           !.writer = "ready"], changed))
      BY OtherFieldsKeepValid
    <2>2. (model.confirmed # colors \/ model.pending \/ model.writer # "ready") \in BOOLEAN
      BY Zenon
    <2>. QED  BY <1>5, <2>1, <2>2 DEF ConfirmWrite
  <1>6. CASE result = MarkPending(model)
    <2>1. Sound(AdvanceIf([model EXCEPT !.pending = TRUE], ~model.pending))
      BY <1>1, OtherFieldsKeepValid
    <2>. QED  BY <1>6, <2>1 DEF MarkPending
  <1>7. CASE result = RecordFailure(model)
    <2>1. "failed" \in Health /\ (model.writer # "failed") \in BOOLEAN
      BY DEF Health
    <2>2. Sound(AdvanceIf([model EXCEPT !.writer = "failed"], model.writer # "failed"))
      BY <2>1, OtherFieldsKeepValid
    <2>. QED  BY <1>7, <2>2 DEF RecordFailure
  <1>8. CASE result = MarkSetupComplete(model)
    <2>1. Sound(AdvanceIf([model EXCEPT !.config.setup = TRUE], ~model.config.setup))
      BY <1>1, OtherFieldsKeepValid
    <2>. QED  BY <1>8, <2>1 DEF MarkSetupComplete
  <1>. QED  BY <1>2, <1>3, <1>4, <1>5, <1>6, <1>7, <1>8 DEF Outcomes
-----------------------------------------------------------------------------
(* What two snapshots of the model with one revision have in common.         *)
Tells(model, next) ==
    /\ next.revision \in {model.revision, AdvancedRevision(model.revision)}
    /\ SnapshotBody(next) # SnapshotBody(model) => next.revision # model.revision

(* An operation that advances whenever it changes what a snapshot shows.     *)
LEMMA AdvancingTells ==
    ASSUME NEW model \in Models, NEW next \in Models, next.revision = model.revision,
           NEW changed \in BOOLEAN, ~changed => SnapshotBody(next) = SnapshotBody(model)
    PROVE  Tells(model, AdvanceIf(next, changed))
  <1>1. model.revision \in 0..RevisionMax
    BY DEF Models
  <1>2. AdvancedRevision(model.revision) # model.revision
    BY <1>1, RevisionMaxAssumption DEF AdvancedRevision
  <1>3. /\ SnapshotBody(AdvanceIf(next, changed)) = SnapshotBody(next)
        /\ AdvanceIf(next, changed) = [next EXCEPT !.revision =
               IF changed THEN AdvancedRevision(next.revision) ELSE next.revision]
    BY AdvanceChangesRevision
  <1>4. AdvanceIf(next, changed).revision
            = IF changed THEN AdvancedRevision(model.revision) ELSE model.revision
    BY <1>3 DEF Models
  <1>5. CASE changed
    BY <1>2, <1>4, <1>5 DEF Tells
  <1>6. CASE ~changed
    BY <1>3, <1>4, <1>6 DEF Tells
  <1>. QED  BY <1>5, <1>6

(* No operation changes what a snapshot shows without a new revision, by     *)
(* which the service and its clients tell snapshots apart (the wrap of a u64 *)
(* included: one step never returns to the revision it left).                *)
THEOREM RevisionTellsSnapshots ==
    ASSUME NEW model, Sound(model), NEW result \in Outcomes(model)
    PROVE  Tells(model, result.model)
  <1>1. /\ model \in Models /\ model.config \in Configs /\ model.pending \in BOOLEAN
        /\ model.config.setup \in BOOLEAN /\ model.confirmed \in [ZoneIds -> Rgb]
        /\ model.config.zones \in [1..4 -> ManualZones]
    BY DEF Sound, Models, Configs
  <1>2. Tells(model, model)
    BY DEF Tells
  <1>3. ASSUME NEW next \in Models, next.revision = model.revision
        PROVE  Tells(model, Advance(next))
    <2>1. Tells(model, AdvanceIf(next, TRUE))
      BY <1>1, <1>3, AdvancingTells
    <2>. QED  BY <2>1 DEF AdvanceIf
  <1>4. CASE \E updates \in Seq(ManualZones) : result = ApplyManualUpdates(model, updates)
    <2>1. PICK updates \in Seq(ManualZones) : result = ApplyManualUpdates(model, updates)
      BY <1>4
    <2> DEFINE zones == UpdatedZones(model.config.zones, updates)
               next == [model EXCEPT !.config.zones = zones]
    <2>2. zones \in [1..4 -> ManualZones]
      BY <1>1, UpdatedZonesKeepPlaces, 1 \in 1..4
    <2>3. (zones # model.config.zones) \in BOOLEAN
      BY Zenon
    <2> HIDE DEF zones
    <2>4. next \in Models /\ next.revision = model.revision
      BY <1>1, <2>2 DEF Models, Configs
    <2>5. ~(zones # model.config.zones) => SnapshotBody(next) = SnapshotBody(model)
      <3>1. model = [model EXCEPT !.config.zones = model.config.zones]
        BY <1>1 DEF Models, Configs
      <3>. QED  BY <3>1
    <2>6. Tells(model, AdvanceIf(next, zones # model.config.zones))
      <3> HIDE DEF next
      <3>. QED  BY <1>1, <2>3, <2>4, <2>5, AdvancingTells
    <2>7. result.model = model \/ result.model = WithZones(model, zones)
      BY <2>1 DEF ApplyManualUpdates, zones
    <2>. QED  BY <1>2, <2>6, <2>7 DEF WithZones
  <1>5. ASSUME NEW mode \in {"manual", "content"}, result = SetMode(model, mode)
        PROVE  Tells(model, result.model)
    <2>1. [model EXCEPT !.config.mode = mode] \in Models
          /\ [model EXCEPT !.config.mode = mode].revision = model.revision
      BY <1>1 DEF Models, Configs
    <2>2. result.model = model \/ result.model = Advance([model EXCEPT !.config.mode = mode])
      BY <1>5 DEF SetMode
    <2>. QED  BY <1>2, <1>3, <2>1, <2>2
  <1>6. ASSUME NEW enabled \in BOOLEAN, result = SetLightsEnabled(model, enabled)
        PROVE  Tells(model, result.model)
    <2>1. [model EXCEPT !.config.lights = enabled] \in Models
          /\ [model EXCEPT !.config.lights = enabled].revision = model.revision
      BY <1>1 DEF Models, Configs
    <2>2. result.model = model
              \/ result.model = Advance([model EXCEPT !.config.lights = enabled])
      BY <1>6 DEF SetLightsEnabled
    <2>. QED  BY <1>2, <1>3, <2>1, <2>2
  <1>7. ASSUME NEW colors \in [ZoneIds -> Rgb], result = ConfirmWrite(model, colors)
        PROVE  Tells(model, result.model)
    <2> DEFINE next == [model EXCEPT !.confirmed = colors, !.pending = FALSE,
                                     !.writer = "ready"]
               changed == model.confirmed # colors \/ model.pending \/ model.writer # "ready"
    <2>1. next \in Models /\ next.revision = model.revision
      BY <1>1 DEF Models, Health
    <2>2. changed \in BOOLEAN
      BY Zenon
    <2>3. ~changed => next = model
      BY <1>1 DEF Models
    <2>4. result.model = AdvanceIf(next, changed)
      BY <1>7 DEF ConfirmWrite
    <2> HIDE DEF next, changed
    <2>. QED  BY <1>1, <2>1, <2>2, <2>3, <2>4, AdvancingTells
  <1>8. CASE result = MarkPending(model)
    <2> DEFINE next == [model EXCEPT !.pending = TRUE]
    <2>1. next \in Models /\ next.revision = model.revision
      BY <1>1 DEF Models
    <2>2. model.pending => next = model
      BY <1>1 DEF Models
    <2>3. result.model = AdvanceIf(next, ~model.pending)
      BY <1>8 DEF MarkPending
    <2> HIDE DEF next
    <2>. QED  BY <1>1, <2>1, <2>2, <2>3, AdvancingTells
  <1>9. CASE result = RecordFailure(model)
    <2> DEFINE next == [model EXCEPT !.writer = "failed"]
               changed == model.writer # "failed"
    <2>1. next \in Models /\ next.revision = model.revision
      BY <1>1 DEF Models, Health
    <2>2. changed \in BOOLEAN
      BY Zenon
    <2>3. ~changed => next = model
      BY <1>1 DEF Models
    <2>4. result.model = AdvanceIf(next, changed)
      BY <1>9 DEF RecordFailure
    <2> HIDE DEF next, changed
    <2>. QED  BY <1>1, <2>1, <2>2, <2>3, <2>4, AdvancingTells
  <1>10. CASE result = MarkSetupComplete(model)
    <2> DEFINE next == [model EXCEPT !.config.setup = TRUE]
    <2>1. next \in Models /\ next.revision = model.revision
      BY <1>1 DEF Models, Configs
    <2>2. model.config.setup => next = model
      BY <1>1 DEF Models, Configs
    <2>3. result.model = AdvanceIf(next, ~model.config.setup)
      BY <1>10 DEF MarkSetupComplete
    <2> HIDE DEF next
    <2>. QED  BY <1>1, <2>1, <2>2, <2>3, AdvancingTells
  <1>. QED  BY <1>4, <1>5, <1>6, <1>7, <1>8, <1>9, <1>10 DEF Outcomes
-----------------------------------------------------------------------------
(* The control path.  What its queues, streams and files hold.               *)
Request == [id : Requests, kind : Kinds, client : Clients]
Answers == [outcome : {"ok", "error"}, setting : Nat]
Snapshots == [epoch : Nat, revision : Nat, setting : Nat]
SnapshotMessages == [is : {"snapshot"}, snapshot : Snapshots]
ResponseMessages == [is : {"response"}, id : Requests, reply : Answers]
Messages == SnapshotMessages \cup ResponseMessages

ServiceTypes ==
    /\ service \in {"down", "opening", "idle", "saving", "saved", "effect", "stopped"}
    /\ engine \in {"none", "opening", "saving", "running"}
    /\ shutdown \in BOOLEAN /\ epoch \in Nat /\ setting \in Nat /\ revision \in Nat
    /\ token \in 0..MaxToken /\ legacy \in AppConfig /\ legacy.setting = 0
    /\ inHand \subseteq Request

IpcTypes ==
    /\ published \in Snapshots
    /\ requests \in Seq(Request) /\ Len(requests) <= RequestCapacity
    /\ replies \in [Clients -> Answers \cup {NoReply}]
    /\ task \in [Clients -> {"none", "accepted", "loop", "waiting"}]
    /\ serving \in [Clients -> SUBSET Requests]
    /\ toServer \in [Clients -> Seq(Request)] /\ toClient \in [Clients -> Seq(Messages)]

ClientTypes ==
    /\ link \in [Clients -> {"connecting", "connected", "gone"}]
    /\ outbound \in [Clients -> Seq(Request)]
    /\ seen \in [Clients -> SUBSET Snapshots]
    /\ outcome \in [Requests -> {"unsent", "waiting", "ok", "error", "lost"}]

HistoryTypes ==
    runs \in [Requests -> 0..1] /\ stored \in BOOLEAN /\ promised \in Nat

(* The settings count the changes that were handled.                          *)
Handled == Cardinality({r \in Requests : runs[r] = 1})
Bounded(n) ==
    /\ file.config.setting <= n
    /\ \A f \in entries : f.config.setting <= n
    /\ \A name \in Names : temporaries[name].file.config.setting <= n
    /\ \A w \in Writers : saves[w].config.setting <= n
CountedPart == setting <= Handled /\ promised <= Handled /\ Bounded(Handled)

Types ==
    ServiceTypes /\ IpcTypes /\ ClientTypes /\ HistoryTypes /\ StoreTypeOK /\ CountedPart

(* A request that was not handled is in one place.                           *)
Distinct(queue) == \A i, j \in DOMAIN queue : queue[i].id = queue[j].id => i = j

PlacesPart ==
    /\ Distinct(requests)
    /\ \A c \in Clients :
          /\ Distinct(outbound[c]) /\ Distinct(toServer[c])
          /\ Ids(requests) \cap (Ids(outbound[c]) \cup Ids(toServer[c])) = {}
          /\ \A d \in Clients :
                /\ Ids(outbound[c]) \cap Ids(toServer[d]) = {}
                /\ c # d => /\ Ids(outbound[c]) \cap Ids(outbound[d]) = {}
                            /\ Ids(toServer[c]) \cap Ids(toServer[d]) = {}

FreshPart ==
    /\ \A r \in Ids(requests) : runs[r] = 0 /\ outcome[r] # "unsent"
    /\ \A c \in Clients : \A r \in Ids(outbound[c]) \cup Ids(toServer[c]) :
          runs[r] = 0 /\ outcome[r] # "unsent"
    /\ \A r \in Requests : outcome[r] = "unsent" => runs[r] = 0

(* The task of a connection waits for the one request of it that the service *)
(* has, and gets the answer to a request that was handled.                   *)
Awaited(q) == task[q.client] = "waiting" /\ replies[q.client] = NoReply
              /\ serving[q.client] = {q.id}

ServedPart ==
    /\ \A k \in DOMAIN requests : Awaited(requests[k])
    /\ \A q \in inHand : Awaited(q) /\ runs[q.id] = 1

AnsweredPart ==
    /\ \A c \in Clients : replies[c] # NoReply =>
          task[c] = "waiting" /\ \A r \in serving[c] : runs[r] = 1
    /\ \A c \in Clients : \A k \in DOMAIN toClient[c] :
          toClient[c][k].is = "response" => runs[toClient[c][k].id] = 1
    /\ \A r \in Requests : outcome[r] \in {"ok", "error"} => runs[r] = 1

(* Snapshots are on their way in the order in which they were published.      *)
PublishedPart ==
    /\ Running => published.epoch = epoch /\ published.revision <= revision
    /\ \A c \in Clients : task[c] # "none" => Running

Past(s) == s.epoch <= epoch /\ (Running => Before(s, published))
InOrder(shown, messages) ==
    /\ \A s, t \in shown : Before(s, t)
    /\ \A k \in DOMAIN messages : messages[k].is = "snapshot" =>
          /\ \A s \in shown : Before(s, messages[k].snapshot)
          /\ \A j \in DOMAIN messages : j < k /\ messages[j].is = "snapshot" =>
                Before(messages[j].snapshot, messages[k].snapshot)

OnTheWayPart ==
    \A c \in Clients :
        /\ \A s \in seen[c] : Past(s)
        /\ \A k \in DOMAIN toClient[c] :
              toClient[c][k].is = "snapshot" => Past(toClient[c][k].snapshot)
        /\ InOrder(seen[c], toClient[c])

(* A save is in progress when its task says so.                              *)
SavingPart ==
    /\ service = "saving" <=> Saving("service")
    /\ engine = "saving" <=> Saving("engine")
    /\ service \in {"down", "opening", "stopped"} => engine = "none"

ControlInv ==
    /\ Types /\ PlacesPart /\ FreshPart /\ ServedPart /\ AnsweredPart
    /\ PublishedPart /\ OnTheWayPart /\ SavingPart

-----------------------------------------------------------------------------
(* Queues: what taking the first and putting a last one does.                *)
LEMMA QueueFacts ==
    ASSUME NEW S, NEW q \in Seq(S)
    PROVE  /\ Len(q) \in Nat /\ DOMAIN q = 1..Len(q) /\ \A k \in DOMAIN q : q[k] \in S
           /\ q # <<>> => /\ 1 \in DOMAIN q /\ Head(q) = q[1] /\ Head(q) \in S
                          /\ Tail(q) \in Seq(S) /\ Len(Tail(q)) = Len(q) - 1
                          /\ \A k \in DOMAIN Tail(q) :
                                 k + 1 \in DOMAIN q /\ k + 1 # 1 /\ k \in Nat /\ Tail(q)[k] = q[k + 1]
                          /\ \A k \in DOMAIN q : k = 1 \/ (k - 1 \in DOMAIN Tail(q) /\ Tail(q)[k - 1] = q[k])
           /\ \A e \in S : /\ Append(q, e) \in Seq(S) /\ Len(Append(q, e)) = Len(q) + 1
                           /\ DOMAIN Append(q, e) = DOMAIN q \cup {Len(q) + 1}
                           /\ Len(q) + 1 \notin DOMAIN q
                           /\ \A k \in DOMAIN q : Append(q, e)[k] = q[k]
                           /\ Append(q, e)[Len(q) + 1] = e
  <1>1. Len(q) \in Nat /\ DOMAIN q = 1..Len(q) /\ \A k \in DOMAIN q : q[k] \in S
    BY LenProperties, ElementOfSeq
  <1>2. ASSUME q # <<>>
        PROVE  /\ Len(q) > 0 /\ Head(q) = q[1] /\ Head(q) \in S
               /\ Tail(q) \in Seq(S) /\ Len(Tail(q)) = Len(q) - 1 /\ DOMAIN Tail(q) = 1..Len(q) - 1
               /\ \A k \in 1..Len(q) - 1 : Tail(q)[k] = q[k + 1]
    <2>1. Head(q) \in S /\ Tail(q) \in Seq(S)
      BY <1>2, HeadTailProperties
    <2>2. Len(q) > 0 /\ Len(Tail(q)) = Len(q) - 1 /\ \A k \in 1..Len(Tail(q)) : Tail(q)[k] = q[k + 1]
      BY <1>1, <1>2, HeadTailProperties, EmptySeq, LenProperties
    <2>3. DOMAIN Tail(q) = 1..Len(Tail(q))
      BY <2>1, LenProperties
    <2>4. Head(q) = q[1]
      OBVIOUS
    <2> QED BY <2>1, <2>2, <2>3, <2>4
  <1>3. q # <<>> => /\ 1 \in DOMAIN q /\ Head(q) = q[1] /\ Head(q) \in S
                    /\ Tail(q) \in Seq(S) /\ Len(Tail(q)) = Len(q) - 1
                    /\ \A k \in DOMAIN Tail(q) :
                           k + 1 \in DOMAIN q /\ k + 1 # 1 /\ k \in Nat /\ Tail(q)[k] = q[k + 1]
                    /\ \A k \in DOMAIN q : k = 1 \/ (k - 1 \in DOMAIN Tail(q) /\ Tail(q)[k - 1] = q[k])
    BY <1>1, <1>2
  <1>4. ASSUME NEW e \in S
        PROVE  /\ Append(q, e) \in Seq(S) /\ Len(Append(q, e)) = Len(q) + 1
               /\ DOMAIN Append(q, e) = DOMAIN q \cup {Len(q) + 1}
               /\ Len(q) + 1 \notin DOMAIN q
               /\ \A k \in DOMAIN q : Append(q, e)[k] = q[k]
               /\ Append(q, e)[Len(q) + 1] = e
    <2>1. /\ Append(q, e) \in Seq(S) /\ Len(Append(q, e)) = Len(q) + 1
          /\ \A k \in 1..Len(q) : Append(q, e)[k] = q[k] /\ Append(q, e)[Len(q) + 1] = e
      BY AppendProperties
    <2>2. Append(q, e)[Len(q) + 1] = e
      BY AppendProperties
    <2>3. DOMAIN Append(q, e) = 1..Len(q) + 1
      BY <2>1, LenProperties
    <2> QED BY <1>1, <2>1, <2>2, <2>3
  <1> QED BY <1>1, <1>3, <1>4

(* The requests a queue holds are those of its head and of its tail.         *)
LEMMA RequestTaken ==
    ASSUME NEW q \in Seq(Request), q # <<>>
    PROVE  /\ Head(q) \in Request /\ Tail(q) \in Seq(Request) /\ Len(Tail(q)) = Len(q) - 1
           /\ Ids(q) = {Head(q).id} \cup Ids(Tail(q))
           /\ Distinct(q) => Distinct(Tail(q)) /\ Head(q).id \notin Ids(Tail(q))
           /\ \E k \in DOMAIN q : Head(q) = q[k]
           /\ \A k \in DOMAIN Tail(q) : \E j \in DOMAIN q : Tail(q)[k] = q[j]
  <1>1. /\ 1 \in DOMAIN q /\ Head(q) = q[1] /\ Head(q) \in Request
        /\ Tail(q) \in Seq(Request) /\ Len(Tail(q)) = Len(q) - 1
        /\ \A k \in DOMAIN Tail(q) :
               k + 1 \in DOMAIN q /\ k + 1 # 1 /\ k \in Nat /\ Tail(q)[k] = q[k + 1]
        /\ \A k \in DOMAIN q : k = 1 \/ (k - 1 \in DOMAIN Tail(q) /\ Tail(q)[k - 1] = q[k])
    BY QueueFacts
  <1>2. Ids(q) = {Head(q).id} \cup Ids(Tail(q))
    <2>1. ASSUME NEW k \in DOMAIN q PROVE q[k].id \in {Head(q).id} \cup Ids(Tail(q))
      BY <1>1 DEF Ids
    <2>2. ASSUME NEW r \in Ids(Tail(q)) PROVE r \in Ids(q)
      BY <1>1 DEF Ids
    <2>3. Head(q).id \in Ids(q)
      BY <1>1 DEF Ids
    <2> QED BY <2>1, <2>2, <2>3 DEF Ids
  <1>3. ASSUME Distinct(q) PROVE Distinct(Tail(q)) /\ Head(q).id \notin Ids(Tail(q))
    <2>1. ASSUME NEW i \in DOMAIN Tail(q), NEW j \in DOMAIN Tail(q),
                 Tail(q)[i].id = Tail(q)[j].id
          PROVE  i = j
      <3>1. i + 1 = j + 1
        BY <1>1, <1>3, <2>1 DEF Distinct
      <3> QED BY <1>1, <3>1
    <2>2. ASSUME NEW i \in DOMAIN Tail(q) PROVE Tail(q)[i].id # Head(q).id
      BY <1>1, <1>3 DEF Distinct
    <2>3. Head(q).id \notin Ids(Tail(q))
      BY <2>2 DEF Ids
    <2> QED BY <2>1, <2>3 DEF Distinct
  <1> QED BY <1>1, <1>2, <1>3

LEMMA RequestPut ==
    ASSUME NEW q \in Seq(Request), NEW e \in Request
    PROVE  /\ Append(q, e) \in Seq(Request) /\ Len(Append(q, e)) = Len(q) + 1
           /\ Ids(Append(q, e)) = Ids(q) \cup {e.id}
           /\ Distinct(q) /\ e.id \notin Ids(q) => Distinct(Append(q, e))
           /\ \A k \in DOMAIN Append(q, e) :
                 Append(q, e)[k] = e \/ \E j \in DOMAIN q : Append(q, e)[k] = q[j]
  <1>1. /\ Append(q, e) \in Seq(Request) /\ Len(Append(q, e)) = Len(q) + 1
        /\ DOMAIN Append(q, e) = DOMAIN q \cup {Len(q) + 1}
        /\ Len(q) + 1 \notin DOMAIN q
        /\ \A k \in DOMAIN q : Append(q, e)[k] = q[k]
        /\ Append(q, e)[Len(q) + 1] = e
    BY QueueFacts
  <1>2. Ids(Append(q, e)) = Ids(q) \cup {e.id}
    <2>1. ASSUME NEW r \in Ids(Append(q, e)) PROVE r \in Ids(q) \cup {e.id}
      BY <1>1 DEF Ids
    <2>2. ASSUME NEW r \in Ids(q) PROVE r \in Ids(Append(q, e))
      BY <1>1 DEF Ids
    <2>3. e.id \in Ids(Append(q, e))
      BY <1>1 DEF Ids
    <2> QED BY <2>1, <2>2, <2>3
  <1>3. ASSUME Distinct(q), e.id \notin Ids(q) PROVE Distinct(Append(q, e))
    <2>1. \A k \in DOMAIN q : q[k].id # e.id
      BY <1>3 DEF Ids
    <2> QED BY <1>1, <1>3, <2>1 DEF Distinct
  <1> QED BY <1>1, <1>2, <1>3

LEMMA NoRequests ==
    <<>> \in Seq(Request) /\ Len(<<>>) = 0 /\ Ids(<<>>) = {} /\ Distinct(<<>>) /\ DOMAIN <<>> = {}
  <1>1. <<>> \in Seq(Request) /\ Len(<<>>) = 0 /\ DOMAIN <<>> = {}
    BY EmptySeq
  <1> QED BY <1>1 DEF Ids, Distinct

LEMMA IdsAreRequests ==
    ASSUME NEW q \in Seq(Request)
    PROVE  Ids(q) \subseteq Requests
  <1>1. \A k \in DOMAIN q : q[k] \in Request
    BY QueueFacts
  <1> QED BY <1>1 DEF Ids, Request

(* Messages that are in order stay so when the first is taken and shown, and  *)
(* when one that comes after all of them is sent.                            *)
LEMMA MessageTaken ==
    ASSUME NEW q \in Seq(Messages), q # <<>>, NEW shown \in SUBSET Snapshots, InOrder(shown, q)
    PROVE  /\ Head(q) \in Messages /\ Tail(q) \in Seq(Messages)
           /\ \E k \in DOMAIN q : Head(q) = q[k]
           /\ \A k \in DOMAIN Tail(q) : \E j \in DOMAIN q : Tail(q)[k] = q[j]
           /\ InOrder(shown, Tail(q))
           /\ Head(q).is = "snapshot" =>
                 Head(q).snapshot \in Snapshots /\ InOrder({Head(q).snapshot}, Tail(q))
  <1>1. /\ 1 \in DOMAIN q /\ Head(q) = q[1] /\ Head(q) \in Messages
        /\ Tail(q) \in Seq(Messages) /\ DOMAIN q = 1..Len(q) /\ Len(q) \in Nat
        /\ \A k \in DOMAIN Tail(q) :
               k + 1 \in DOMAIN q /\ k + 1 # 1 /\ k \in Nat /\ Tail(q)[k] = q[k + 1]
    BY QueueFacts
  <1>2. \A j, k \in DOMAIN Tail(q) : j < k => j + 1 < k + 1
    BY <1>1
  <1>3. InOrder(shown, Tail(q))
    BY <1>1, <1>2 DEF InOrder
  <1>4. ASSUME Head(q).is = "snapshot"
        PROVE  Head(q).snapshot \in Snapshots /\ InOrder({Head(q).snapshot}, Tail(q))
    <2>1. Head(q).snapshot \in Snapshots
      BY <1>1, <1>4 DEF Messages, SnapshotMessages, ResponseMessages
    <2>2. \A k \in DOMAIN Tail(q) : 1 < k + 1
      BY <1>1
    <2>3. \A k \in DOMAIN Tail(q) : Tail(q)[k].is = "snapshot" =>
              Before(Head(q).snapshot, Tail(q)[k].snapshot)
      BY <1>1, <1>4, <2>2 DEF InOrder
    <2>4. Before(Head(q).snapshot, Head(q).snapshot)
      BY <2>1 DEF Before, Snapshots
    <2> QED BY <1>3, <2>1, <2>3, <2>4 DEF InOrder
  <1> QED BY <1>1, <1>3, <1>4

LEMMA MessagePut ==
    ASSUME NEW q \in Seq(Messages), NEW e \in Messages, NEW shown \in SUBSET Snapshots,
           InOrder(shown, q),
           e.is = "snapshot" =>
              /\ \A s \in shown : Before(s, e.snapshot)
              /\ \A k \in DOMAIN q : q[k].is = "snapshot" => Before(q[k].snapshot, e.snapshot)
    PROVE  /\ Append(q, e) \in Seq(Messages)
           /\ \A k \in DOMAIN Append(q, e) :
                 Append(q, e)[k] = e \/ \E j \in DOMAIN q : Append(q, e)[k] = q[j]
           /\ InOrder(shown, Append(q, e))
  <1>1. /\ Append(q, e) \in Seq(Messages)
        /\ DOMAIN Append(q, e) = DOMAIN q \cup {Len(q) + 1}
        /\ Len(q) + 1 \notin DOMAIN q /\ DOMAIN q = 1..Len(q) /\ Len(q) \in Nat
        /\ \A k \in DOMAIN q : Append(q, e)[k] = q[k]
        /\ Append(q, e)[Len(q) + 1] = e
    BY QueueFacts
  <1>2. \A j \in DOMAIN Append(q, e) : ~(Len(q) + 1 < j)
    BY <1>1
  <1>3. \A j \in DOMAIN Append(q, e) : j < Len(q) + 1 => j \in DOMAIN q
    BY <1>1
  <1>4. \A j, k \in DOMAIN Append(q, e) :
            /\ j < k /\ Append(q, e)[j].is = "snapshot" /\ Append(q, e)[k].is = "snapshot"
            => Before(Append(q, e)[j].snapshot, Append(q, e)[k].snapshot)
    BY <1>1, <1>2, <1>3 DEF InOrder
  <1>5. \A k \in DOMAIN Append(q, e) : Append(q, e)[k].is = "snapshot" =>
            \A s \in shown : Before(s, Append(q, e)[k].snapshot)
    BY <1>1 DEF InOrder
  <1>6. \A s, t \in shown : Before(s, t)
    BY DEF InOrder
  <1> QED BY <1>1, <1>4, <1>5, <1>6 DEF InOrder

LEMMA NoMessages ==
    ASSUME NEW shown \in SUBSET Snapshots, \A s, t \in shown : Before(s, t)
    PROVE  <<>> \in Seq(Messages) /\ DOMAIN <<>> = {} /\ InOrder(shown, <<>>)
  <1>1. <<>> \in Seq(Messages) /\ DOMAIN <<>> = {}
    BY EmptySeq
  <1> QED BY <1>1 DEF InOrder

(* Order is transitive.                                                      *)
LEMMA BeforeOrders ==
    /\ \A s \in Snapshots : Before(s, s)
    /\ \A s, t, u \in Snapshots : Before(s, t) /\ Before(t, u) => Before(s, u)
  BY DEF Before, Snapshots

-----------------------------------------------------------------------------
(* Every operation of the store keeps its types, and the settings in it.      *)
StoreOp(w, config) ==
    \/ UNCHANGED storeVars \/ Load
    \/ CreateTemporary(w, config) \/ WriteTemporary(w) \/ SyncTemporary(w) \/ Replace(w)
    \/ SyncDirectory(w) \/ SaveFails(w) \/ Crash \/ PowerLoss

LEMMA FilesOfTheStore ==
    /\ Default \in AppConfig /\ Absent \in File /\ Torn \in File /\ NoEntry \in [owner : SUBSET Writers, file : File]
    /\ \A config \in AppConfig :
          /\ Saved(config) \in File /\ [Saved(config) EXCEPT !.synced = FALSE] \in File
          /\ Saved(config).config = config /\ [Saved(config) EXCEPT !.synced = FALSE].config = config
    /\ \A f \in File : Settled(f) \in File /\ (Settled(f) = f \/ Settled(f) = Torn)
    /\ Torn.config = Default /\ Absent.config = Default /\ NoEntry.file = Absent
    /\ Default.setting = 0 /\ 0 \in Names
  <1>1. Default \in AppConfig
    BY StoreAssumption DEF Default, AppConfig
  <1>2. 0 \in Names
    BY StoreAssumption DEF Names
  <1>3. Absent \in File /\ Torn \in File
    BY <1>1 DEF Absent, Torn, File
  <1>4. NoEntry \in [owner : SUBSET Writers, file : File]
    BY <1>3 DEF NoEntry
  <1>5. ASSUME NEW config \in AppConfig
        PROVE /\ Saved(config) \in File /\ [Saved(config) EXCEPT !.synced = FALSE] \in File
              /\ Saved(config).config = config /\ [Saved(config) EXCEPT !.synced = FALSE].config = config
    BY DEF Saved, File
  <1>6. \A f \in File : Settled(f) \in File /\ (Settled(f) = f \/ Settled(f) = Torn)
    BY <1>3 DEF Settled
  <1>7. Torn.config = Default /\ Absent.config = Default /\ NoEntry.file = Absent /\ Default.setting = 0
    BY DEF Torn, Absent, NoEntry, Default
  <1> QED BY <1>1, <1>2, <1>3, <1>4, <1>5, <1>6, <1>7

LEMMA LoadedIsConfig ==
    ASSUME StoreTypeOK, legacy \in AppConfig, legacy.setting = 0, NEW n \in Nat, Bounded(n)
    PROVE  Loaded(legacy) \in AppConfig /\ Loaded(legacy).setting <= n
  <1>1. file.config \in AppConfig /\ file.config.setting <= n
    BY DEF StoreTypeOK, File, Bounded
  <1>2. Loaded(legacy) \in {file.config, legacy, Default}
    BY DEF Loaded
  <1> QED BY <1>1, <1>2, FilesOfTheStore

LEMMA StoreMoves ==
    ASSUME StoreTypeOK, NEW n \in Nat, Bounded(n), NEW w \in Writers, NEW config \in AppConfig,
           config.setting <= n, StoreOp(w, config)
    PROVE  StoreTypeOK' /\ Bounded(n)'
  <1>1. /\ file \in File /\ entries \subseteq File
        /\ temporaries \in [Names -> [owner : SUBSET Writers, file : File]]
        /\ saves \in [Writers -> [at : {"idle", "created", "written", "synced", "renamed"},
                              config : AppConfig, name : Names]]
        /\ saves[w].name \in Names /\ saves[w].config \in AppConfig
        /\ saves[w].config.setting <= n /\ Temporary(w).file \in File /\ Temporary(w).file.config.setting <= n
    BY DEF StoreTypeOK, Bounded, Temporary
  <1>c. collided' \in BOOLEAN
    BY Zenon DEF StoreTypeOK, StoreOp, storeVars, Load, CreateTemporary, WriteTemporary, SyncTemporary,
       Replace, SyncDirectory, SaveFails, Crash, PowerLoss, ProcessDies
  <1>2. Torn.config.setting <= n /\ Absent.config.setting <= n /\ NoEntry.file.config.setting <= n
        /\ Default.setting <= n
    BY FilesOfTheStore
  <1>3. ASSUME NEW f \in File, f.config.setting <= n, Fill(w, f)
        PROVE  /\ temporaries' \in [Names -> [owner : SUBSET Writers, file : File]]
               /\ \A name \in Names : temporaries'[name].file.config.setting <= n
    BY <1>1, <1>3 DEF Fill, Bounded
  <1>4. ASSUME NEW at \in {"idle", "created", "written", "synced", "renamed"}, Goto(w, at)
        PROVE  /\ saves' \in [Writers -> [at : {"idle", "created", "written", "synced", "renamed"},
                              config : AppConfig, name : Names]]
               /\ \A v \in Writers : saves'[v].config.setting <= n
    BY <1>1, <1>4 DEF Goto, Bounded
  <1>5. ASSUME saves' = [saves EXCEPT ![w] = Idle]
        PROVE  /\ saves' \in [Writers -> [at : {"idle", "created", "written", "synced", "renamed"},
                              config : AppConfig, name : Names]]
               /\ \A v \in Writers : saves'[v].config.setting <= n
    <2>1. Idle \in [at : {"idle", "created", "written", "synced", "renamed"},
                              config : AppConfig, name : Names] /\ Idle.config = Default
      BY FilesOfTheStore DEF Idle
    <2> QED BY <1>1, <1>2, <1>5, <2>1 DEF Bounded
  <1>6. ASSUME Unlink(w)
        PROVE  /\ temporaries' \in [Names -> [owner : SUBSET Writers, file : File]]
               /\ \A name \in Names : temporaries'[name].file.config.setting <= n
    BY <1>1, <1>2, <1>6, FilesOfTheStore DEF Unlink, Bounded
  <1>7. ASSUME ProcessDies
        PROVE  /\ temporaries' \in [Names -> [owner : SUBSET Writers, file : File]]
               /\ \A name \in Names : temporaries'[name].file.config.setting <= n
               /\ saves' \in [Writers -> [at : {"idle", "created", "written", "synced", "renamed"},
                              config : AppConfig, name : Names]]
               /\ \A v \in Writers : saves'[v].config.setting <= n
    <2>1. Idle \in [at : {"idle", "created", "written", "synced", "renamed"},
                              config : AppConfig, name : Names] /\ Idle.config = Default
      BY FilesOfTheStore DEF Idle
    <2> QED BY <1>2, <1>7, <2>1, FilesOfTheStore DEF ProcessDies
  <1>8. CASE UNCHANGED storeVars
    BY <1>8 DEF storeVars, StoreTypeOK, Bounded
  <1>9. CASE Load
    <2>1. file' \in File /\ file'.config.setting <= n /\ entries' \subseteq File
          /\ \A f \in entries' : f.config.setting <= n
      BY <1>1, <1>2, <1>9, FilesOfTheStore DEF Load, Bounded
    <2> QED BY <1>1, <1>9, <2>1 DEF Load, Bounded, StoreTypeOK
  <1>10. CASE CreateTemporary(w, config)
    <2>1. PICK name \in Names :
              /\ temporaries' = [temporaries EXCEPT ![name] = [owner |-> {w}, file |-> Torn]]
              /\ saves' = [saves EXCEPT ![w] = [at |-> "created", config |-> config, name |-> name]]
      BY <1>10 DEF CreateTemporary
    <2>2. /\ temporaries' \in [Names -> [owner : SUBSET Writers, file : File]]
          /\ \A m \in Names : temporaries'[m].file.config.setting <= n
      BY <1>1, <1>2, <2>1, FilesOfTheStore DEF Bounded
    <2>3. /\ saves' \in [Writers -> [at : {"idle", "created", "written", "synced", "renamed"},
                              config : AppConfig, name : Names]]
          /\ \A v \in Writers : saves'[v].config.setting <= n
      BY <1>1, <2>1 DEF Bounded
    <2>4. UNCHANGED <<file, entries>>
      BY <1>10 DEF CreateTemporary
    <2> QED BY <1>c, <1>1, <2>2, <2>3, <2>4 DEF Bounded, StoreTypeOK
  <1>11. CASE WriteTemporary(w)
    <2>1. [Saved(saves[w].config) EXCEPT !.synced = FALSE] \in File
          /\ [Saved(saves[w].config) EXCEPT !.synced = FALSE].config.setting <= n
      BY <1>1, FilesOfTheStore
    <2>2. Fill(w, [Saved(saves[w].config) EXCEPT !.synced = FALSE]) /\ Goto(w, "written")
          /\ UNCHANGED <<file, entries>>
      BY <1>11 DEF WriteTemporary
    <2> QED BY <1>c, <1>1, <1>3, <1>4, <2>1, <2>2 DEF Bounded, StoreTypeOK
  <1>12. CASE SyncTemporary(w)
    <2>1. Saved(saves[w].config) \in File /\ Saved(saves[w].config).config.setting <= n
      BY <1>1, FilesOfTheStore
    <2>2. Fill(w, Saved(saves[w].config)) /\ Goto(w, "synced") /\ UNCHANGED <<file, entries>>
      BY <1>12 DEF SyncTemporary
    <2> QED BY <1>c, <1>1, <1>3, <1>4, <2>1, <2>2 DEF Bounded, StoreTypeOK
  <1>13. CASE Replace(w)
    <2>1. file' = Temporary(w).file /\ entries' = entries \cup {Temporary(w).file}
          /\ Unlink(w) /\ Goto(w, "renamed")
      BY <1>13 DEF Replace
    <2> QED BY <1>c, <1>1, <1>4, <1>6, <2>1 DEF Bounded, StoreTypeOK
  <1>14. CASE SyncDirectory(w)
    <2>1. saves' = [saves EXCEPT ![w] = Idle] /\ entries' = {file} /\ UNCHANGED <<file, temporaries>>
      BY <1>14 DEF SyncDirectory
    <2> QED BY <1>c, <1>1, <1>5, <2>1 DEF Bounded, StoreTypeOK
  <1>15. CASE SaveFails(w)
    <2>1. saves' = [saves EXCEPT ![w] = Idle] /\ Unlink(w) /\ UNCHANGED <<file, entries>>
      BY <1>15 DEF SaveFails
    <2> QED BY <1>c, <1>1, <1>5, <1>6, <2>1 DEF Bounded, StoreTypeOK
  <1>16. CASE Crash
    BY <1>c, <1>1, <1>7, <1>16 DEF Crash, Bounded, StoreTypeOK
  <1>17. CASE PowerLoss
    <2>1. PICK f \in entries : file' = Settled(f) /\ entries' = {Settled(f)}
      BY <1>17 DEF PowerLoss
    <2>2. f \in File /\ f.config.setting <= n
      BY <1>1 DEF Bounded
    <2>3. Settled(f) \in File /\ Settled(f).config.setting <= n
      BY <1>2, <2>2, FilesOfTheStore
    <2>4. ProcessDies
      BY <1>17 DEF PowerLoss
    <2> QED BY <1>c, <1>7, <2>1, <2>3, <2>4 DEF Bounded, StoreTypeOK
  <1> QED BY <1>8, <1>9, <1>10, <1>11, <1>12, <1>13, <1>14, <1>15, <1>16, <1>17 DEF StoreOp

-----------------------------------------------------------------------------
(* What the service and the tasks do to the requests.                        *)
RequestParts == PlacesPart /\ FreshPart /\ ServedPart /\ AnsweredPart
requestVars == <<requests, replies, task, serving, toServer, toClient, outbound, outcome, runs,
                 inHand>>

LEMMA RequestsRest ==
    ASSUME ControlInv, UNCHANGED requestVars
    PROVE  RequestParts'
  <1>1. PlacesPart'
    BY DEF ControlInv, requestVars, PlacesPart
  <1>2. FreshPart'
    BY DEF ControlInv, requestVars, FreshPart
  <1>3. ServedPart'
    BY DEF ControlInv, requestVars, ServedPart, Awaited
  <1>4. AnsweredPart'
    BY DEF ControlInv, requestVars, AnsweredPart
  <1> QED BY <1>1, <1>2, <1>3, <1>4 DEF RequestParts

(* The request that the service takes is in no other place, was not handled, *)
(* and is the one its client's task waits for.                               *)
LEMMA RequestIsTaken ==
    ASSUME ControlInv, Take
    PROVE  /\ Head(requests) \in Request /\ Awaited(Head(requests))
           /\ requests' \in Seq(Request) /\ Len(requests') <= RequestCapacity
           /\ runs[Head(requests).id] = 0 /\ runs'[Head(requests).id] = 1
           /\ runs' \in [Requests -> 0..1]
           /\ \A r \in Requests : r # Head(requests).id => runs'[r] = runs[r]
           /\ \A k \in DOMAIN requests' :
                 /\ requests'[k] \in Request /\ Awaited(requests'[k])
                 /\ requests'[k].client # Head(requests).client
           /\ \A q \in inHand : q.client # Head(requests).client
           /\ PlacesPart' /\ FreshPart'
  <1> DEFINE h == Head(requests)
  <1>1. requests \in Seq(Request) /\ requests # <<>> /\ requests' = Tail(requests)
        /\ runs \in [Requests -> 0..1] /\ Len(requests) <= RequestCapacity
        /\ Distinct(requests) /\ inHand \subseteq Request /\ RequestCapacity \in Nat
    BY IpcAssumption DEF ControlInv, Types, IpcTypes, HistoryTypes, ServiceTypes, Take, PlacesPart
  <1>2. /\ h \in Request /\ Tail(requests) \in Seq(Request) /\ Len(Tail(requests)) = Len(requests) - 1
        /\ Ids(requests) = {h.id} \cup Ids(Tail(requests))
        /\ Distinct(Tail(requests)) /\ h.id \notin Ids(Tail(requests))
        /\ \E k \in DOMAIN requests : h = requests[k]
        /\ \A k \in DOMAIN Tail(requests) : \E j \in DOMAIN requests : Tail(requests)[k] = requests[j]
    BY <1>1, RequestTaken
  <1> HIDE DEF h
  <1>3. h.id \in Requests /\ h.client \in Clients
    BY <1>2 DEF Request
  <1>4. Awaited(h) /\ \A k \in DOMAIN requests' : Awaited(requests'[k])
    BY <1>1, <1>2 DEF ControlInv, ServedPart
  <1>5. \A k \in DOMAIN requests' : requests'[k] \in Request /\ requests'[k].id # h.id
    BY <1>1, <1>2, QueueFacts DEF Ids
  <1>6. \A k \in DOMAIN requests' : requests'[k].client # h.client
    BY <1>4, <1>5 DEF Awaited
  <1>7. runs[h.id] = 0 /\ outcome[h.id] # "unsent"
    BY <1>2 DEF ControlInv, FreshPart
  <1>8. runs' = [runs EXCEPT ![h.id] = @ + 1]
    BY DEF Take, h
  <1>9. runs'[h.id] = 1 /\ runs' \in [Requests -> 0..1]
        /\ \A r \in Requests : r # h.id => runs'[r] = runs[r]
    BY <1>1, <1>3, <1>7, <1>8
  <1>10. \A q \in inHand : q.client # h.client
    BY <1>4, <1>7 DEF ControlInv, ServedPart, Awaited
  <1>11. Len(requests') <= RequestCapacity
    <2>1. Len(requests) \in Nat
      BY <1>1, QueueFacts
    <2> QED BY <1>1, <1>2, <2>1
  <1>12. outbound' = outbound /\ toServer' = toServer /\ outcome' = outcome
    BY DEF Take, ClientsUnchanged, clientVars, wires
  <1>13. Ids(requests') \subseteq Ids(requests) /\ Distinct(requests') /\ h.id \notin Ids(requests')
         /\ h.id \in Ids(requests)
    BY <1>1, <1>2
  <1>14. /\ \A c \in Clients : Ids(outbound'[c]) = Ids(outbound[c]) /\ Ids(toServer'[c]) = Ids(toServer[c])
         /\ \A c \in Clients : Distinct(outbound'[c]) = Distinct(outbound[c])
                /\ Distinct(toServer'[c]) = Distinct(toServer[c])
    BY <1>12
  <1>15. PlacesPart'
    <2>1. Ids(requests)' = Ids(requests') /\ Distinct(requests)' = Distinct(requests')
      BY DEF Ids, Distinct
    <2>2. \A c \in Clients : Ids(outbound[c])' = Ids(outbound[c]) /\ Ids(toServer[c])' = Ids(toServer[c])
      BY <1>12 DEF Ids
    <2>3. \A c \in Clients : Distinct(outbound[c])' = Distinct(outbound[c])
                /\ Distinct(toServer[c])' = Distinct(toServer[c])
      BY <1>12 DEF Distinct
    <2> QED BY <1>13, <2>1, <2>2, <2>3 DEF ControlInv, PlacesPart
  <1>16. FreshPart'
    <2>1. \A r \in Ids(requests') : runs'[r] = 0 /\ outcome'[r] # "unsent"
      <3>1. Ids(requests) \subseteq Requests
        BY <1>1, IdsAreRequests
      <3> QED BY <1>9, <1>12, <1>13, <3>1 DEF ControlInv, FreshPart
    <2>2. ASSUME NEW c \in Clients, NEW r \in Ids(outbound'[c]) \cup Ids(toServer'[c])
          PROVE  runs'[r] = 0 /\ outcome'[r] # "unsent"
      <3>1. r \in Ids(outbound[c]) \cup Ids(toServer[c])
        BY <1>14
      <3>2. outbound[c] \in Seq(Request) /\ toServer[c] \in Seq(Request)
        BY DEF ControlInv, Types, IpcTypes, ClientTypes
      <3>3. r \in Requests
        BY <3>1, <3>2, IdsAreRequests
      <3>4. r # h.id
        BY <1>13, <3>1 DEF ControlInv, PlacesPart
      <3> QED BY <1>9, <1>12, <3>1, <3>3, <3>4 DEF ControlInv, FreshPart
    <2>3. \A r \in Requests : outcome'[r] = "unsent" => runs'[r] = 0
      BY <1>7, <1>9, <1>12 DEF ControlInv, FreshPart
    <2> QED BY <2>1, <2>2, <2>3 DEF FreshPart, Ids
  <1> QED BY <1>1, <1>2, <1>4, <1>5, <1>6, <1>7, <1>9, <1>10, <1>11, <1>15, <1>16 DEF h

LEMMA HandlersKeepRequests ==
    ASSUME ControlInv, HandleQuery \/ HandleChange \/ HandleChoose
    PROVE  RequestParts'
  <1> DEFINE h == Head(requests)
  <1>1. Take
    BY DEF HandleQuery, HandleChange, HandleChoose
  <1>2. /\ h \in Request /\ Awaited(h) /\ runs[h.id] = 0 /\ runs'[h.id] = 1
        /\ \A r \in Requests : r # h.id => runs'[r] = runs[r]
        /\ \A k \in DOMAIN requests' :
              requests'[k] \in Request /\ Awaited(requests'[k]) /\ requests'[k].client # h.client
        /\ \A q \in inHand : q.client # h.client
        /\ PlacesPart' /\ FreshPart'
    BY <1>1, RequestIsTaken
  <1>3. h.id \in Requests /\ h.client \in Clients
    BY <1>2 DEF Request
  <1>4. /\ task' = task /\ serving' = serving /\ toClient' = toClient /\ outcome' = outcome
    BY <1>1 DEF Take, wires, ClientsUnchanged, clientVars
  <1>5. /\ replies \in [Clients -> Answers \cup {NoReply}] /\ inHand \subseteq Request
        /\ serving \in [Clients -> SUBSET Requests] /\ toClient \in [Clients -> Seq(Messages)]
    BY DEF ControlInv, Types, ServiceTypes, IpcTypes
  <1> HIDE DEF h
  <1>6. \A r \in Requests : runs[r] = 1 => runs'[r] = 1
    BY <1>2
  <1>7. ASSUME NEW c \in Clients, NEW k \in DOMAIN toClient'[c], toClient'[c][k].is = "response"
        PROVE  runs'[toClient'[c][k].id] = 1
    <2>1. toClient[c] \in Seq(Messages) /\ k \in DOMAIN toClient[c] /\ toClient'[c][k] = toClient[c][k]
      BY <1>4, <1>5
    <2>2. toClient[c][k] \in Messages
      BY <2>1, QueueFacts
    <2>3. toClient[c][k].id \in Requests
      BY <1>7, <2>1, <2>2 DEF Messages, SnapshotMessages, ResponseMessages
    <2> QED BY <1>6, <1>7, <2>1, <2>3 DEF ControlInv, AnsweredPart
  <1>8. \A r \in Requests : outcome'[r] \in {"ok", "error"} => runs'[r] = 1
    BY <1>4, <1>6 DEF ControlInv, AnsweredPart
  <1>9. CASE HandleQuery
    <2>1. PICK reply : Answer(h.client, reply)
      BY <1>9 DEF HandleQuery, h
    <2>2. replies' = [replies EXCEPT ![h.client] = reply] /\ inHand' = inHand
      BY <1>2, <1>9, <2>1 DEF Answer, Awaited, HandleQuery
    <2>3. \A c \in Clients : c # h.client => replies'[c] = replies[c]
      BY <1>5, <2>2
    <2>4. ServedPart'
      <3>1. \A k \in DOMAIN requests' :
                /\ task'[requests'[k].client] = "waiting" /\ replies'[requests'[k].client] = NoReply
                /\ serving'[requests'[k].client] = {requests'[k].id}
        BY <1>2, <1>4, <2>3 DEF Awaited, Request
      <3>2. \A q \in inHand' :
                /\ task'[q.client] = "waiting" /\ replies'[q.client] = NoReply
                /\ serving'[q.client] = {q.id} /\ runs'[q.id] = 1
        <4>1. \A q \in inHand : Awaited(q) /\ runs[q.id] = 1 /\ q.client \in Clients /\ q.id \in Requests
          BY <1>5 DEF ControlInv, ServedPart, Request
        <4> QED BY <1>2, <1>4, <1>6, <2>2, <2>3, <4>1 DEF Awaited
      <3> QED BY <3>1, <3>2 DEF ServedPart, Awaited
    <2>5. ASSUME NEW c \in Clients, replies'[c] # NoReply
          PROVE  task'[c] = "waiting" /\ \A r \in serving'[c] : runs'[r] = 1
      <3>1. CASE c = h.client
        BY <1>2, <1>4, <3>1 DEF Awaited
      <3>2. CASE c # h.client
        BY <1>4, <1>5, <1>6, <2>3, <2>5, <3>2 DEF ControlInv, AnsweredPart
      <3> QED BY <3>1, <3>2
    <2>6. AnsweredPart'
      BY <1>7, <1>8, <2>5 DEF AnsweredPart
    <2> QED BY <1>2, <2>4, <2>6 DEF RequestParts
  <1>10. CASE HandleChange \/ HandleChoose
    <2>1. replies' = replies /\ inHand' = {h}
      BY <1>10 DEF HandleChange, HandleChoose, h
    <2>2. ServedPart'
      BY <1>2, <1>4, <2>1 DEF ServedPart, Awaited
    <2>3. \A c \in Clients : replies'[c] # NoReply =>
              task'[c] = "waiting" /\ \A r \in serving'[c] : runs'[r] = 1
      BY <1>4, <1>5, <1>6, <2>1 DEF ControlInv, AnsweredPart
    <2>4. AnsweredPart'
      BY <1>7, <1>8, <2>3 DEF AnsweredPart
    <2> QED BY <1>2, <2>2, <2>4 DEF RequestParts
  <1> QED BY <1>9, <1>10

LEMMA EffectEndsKeepsRequests ==
    ASSUME ControlInv, EffectEnds
    PROVE  RequestParts'
  <1>1. /\ requests' = requests /\ task' = task /\ serving' = serving /\ toClient' = toClient
        /\ toServer' = toServer /\ outcome' = outcome /\ outbound' = outbound /\ runs' = runs
        /\ inHand' = {}
    BY DEF EffectEnds, IpcRest, wires, ClientsUnchanged, clientVars
  <1>2. PlacesPart' /\ FreshPart'
    BY <1>1 DEF ControlInv, PlacesPart, FreshPart
  <1>3. PICK q \in inHand : Answer(q.client, Ok(setting))
    BY DEF EffectEnds
  <1>4. Awaited(q) /\ runs[q.id] = 1 /\ q.client \in Clients
    BY DEF ControlInv, ServedPart, Types, ServiceTypes, Request
  <1>5. replies' = [replies EXCEPT ![q.client] = Ok(setting)]
        /\ replies \in [Clients -> Answers \cup {NoReply}]
    BY <1>3, <1>4 DEF Answer, Awaited, ControlInv, Types, IpcTypes
  <1>6. \A c \in Clients : c # q.client => replies'[c] = replies[c]
    BY <1>4, <1>5
  <1>7. ASSUME NEW k \in DOMAIN requests PROVE Awaited(requests[k])'
    <2>1. requests[k] \in Request /\ Awaited(requests[k]) /\ runs[requests[k].id] = 0
      BY QueueFacts DEF ControlInv, Types, IpcTypes, ServedPart, FreshPart, Ids
    <2>2. requests[k].client # q.client
      BY <1>4, <2>1 DEF Awaited
    <2> QED BY <1>1, <1>6, <2>1, <2>2 DEF Awaited, Request
  <1>8. ServedPart'
    BY <1>1, <1>7 DEF ServedPart, Awaited
  <1>9. ASSUME NEW c \in Clients, replies'[c] # NoReply
        PROVE  task[c] = "waiting" /\ \A r \in serving[c] : runs[r] = 1
    <2>1. CASE c = q.client
      BY <1>4, <2>1 DEF Awaited
    <2>2. CASE c # q.client
      BY <1>6, <1>9, <2>2 DEF ControlInv, AnsweredPart
    <2> QED BY <2>1, <2>2
  <1>10. AnsweredPart'
    BY <1>1, <1>9 DEF ControlInv, AnsweredPart
  <1> QED BY <1>2, <1>8, <1>10 DEF RequestParts

(* Nothing of a process outlives it but what clients hold.                   *)
LEMMA EndsKeepRequests ==
    ASSUME ControlInv, Stops \/ Crashes \/ PowerFails
    PROVE  RequestParts'
  <1>1. /\ requests' = <<>> /\ replies' = [c \in Clients |-> NoReply]
        /\ toServer' = [c \in Clients |-> <<>>] /\ inHand' = {} /\ runs' = runs
    BY DEF Stops, Crashes, PowerFails, Gone, ProcessEnds
  <1>2. \/ outbound' = outbound /\ outcome' = outcome /\ toClient' = toClient
        \/ /\ outbound' = [c \in Clients |-> <<>>] /\ toClient' = [c \in Clients |-> <<>>]
           /\ outcome' = [r \in Requests |->
                 IF r \in {s \in Requests : outcome[s] = "waiting"} THEN "lost" ELSE outcome[r]]
    BY DEF Stops, Crashes, PowerFails, ClientsUnchanged, clientVars, Resolve
  <1>3. /\ \A c \in Clients : outbound'[c] = outbound[c] \/ outbound'[c] = <<>>
        /\ \A c \in Clients : toClient'[c] = toClient[c] \/ toClient'[c] = <<>>
        /\ \A r \in Requests : outcome'[r] = outcome[r] \/ (outcome[r] = "waiting" /\ outcome'[r] = "lost")
    BY <1>2
  <1>4. /\ Ids(requests') = {} /\ Distinct(requests') /\ DOMAIN requests' = {}
        /\ \A c \in Clients : Ids(toServer'[c]) = {} /\ Distinct(toServer'[c])
        /\ \A c \in Clients : Ids(outbound'[c]) \subseteq Ids(outbound[c])
        /\ \A c \in Clients : Distinct(outbound[c]) => Distinct(outbound'[c])
    BY <1>1, <1>3, NoRequests
  <1>5. \A c, d \in Clients : c # d => Ids(outbound'[c]) \cap Ids(outbound'[d]) = {}
    BY <1>4 DEF ControlInv, PlacesPart
  <1>6. PlacesPart'
    BY <1>4, <1>5 DEF ControlInv, PlacesPart
  <1>7. ASSUME NEW c \in Clients, NEW r \in Ids(outbound'[c])
        PROVE  runs'[r] = 0 /\ outcome'[r] # "unsent"
    <2>1. outbound[c] \in Seq(Request)
      BY DEF ControlInv, Types, ClientTypes
    <2>2. r \in Ids(outbound[c]) /\ r \in Requests
      BY <1>4, <2>1, IdsAreRequests
    <2>3. runs[r] = 0 /\ outcome[r] # "unsent"
      BY <2>2 DEF ControlInv, FreshPart
    <2> QED BY <1>1, <1>3, <2>2, <2>3
  <1>8. \A r \in Requests : outcome'[r] = "unsent" => runs'[r] = 0
    BY <1>1, <1>3 DEF ControlInv, FreshPart
  <1>9. FreshPart'
    BY <1>4, <1>7, <1>8 DEF FreshPart
  <1>10. ServedPart'
    BY <1>1, <1>4 DEF ServedPart
  <1>11. AnsweredPart'
    <2>1. \A c \in Clients : replies'[c] = NoReply
      BY <1>1
    <2>2. ASSUME NEW c \in Clients, NEW k \in DOMAIN toClient'[c], toClient'[c][k].is = "response"
          PROVE  runs'[toClient'[c][k].id] = 1
      <3>1. toClient'[c] = toClient[c]
        BY <1>3, <2>2, NoRequests
      <3> QED BY <1>1, <2>2, <3>1 DEF ControlInv, AnsweredPart
    <2>3. \A r \in Requests : outcome'[r] \in {"ok", "error"} => runs'[r] = 1
      BY <1>1, <1>3 DEF ControlInv, AnsweredPart
    <2> QED BY <2>1, <2>2, <2>3 DEF AnsweredPart
  <1> QED BY <1>6, <1>9, <1>10, <1>11 DEF RequestParts

(* A step of a connection that leaves the queues as they are, and the task   *)
(* of every connection the service has a request of.                         *)
LEMMA TasksKeepRequests ==
    ASSUME ControlInv, NEW c \in Clients,
           UNCHANGED <<requests, outbound, outcome, runs, inHand>>, task[c] # "waiting" \/ replies[c] # NoReply,
           toServer' = toServer \/ toServer' = [toServer EXCEPT ![c] = <<>>],
           \A d \in Clients : d # c =>
              task'[d] = task[d] /\ serving'[d] = serving[d] /\ replies'[d] = replies[d],
           replies'[c] = NoReply \/ (replies[c] = replies'[c] /\ task'[c] = task[c] /\ serving'[c] = serving[c]),
           \A d \in Clients : \A k \in DOMAIN toClient'[d] :
              \/ \E j \in DOMAIN toClient[d] : toClient'[d][k] = toClient[d][j]
              \/ toClient'[d][k].is = "snapshot"
              \/ d = c /\ replies[c] # NoReply /\ toClient'[d][k].id \in serving[c]
    PROVE  RequestParts'
  <1>1. /\ requests' = requests /\ outbound' = outbound /\ outcome' = outcome /\ runs' = runs
        /\ inHand' = inHand /\ toServer \in [Clients -> Seq(Request)]
    BY DEF ControlInv, Types, IpcTypes
  <1>2. \A d \in Clients : toServer'[d] = toServer[d] \/ toServer'[d] = <<>>
    BY <1>1
  <1>3. /\ \A d \in Clients : Ids(toServer'[d]) \subseteq Ids(toServer[d])
        /\ \A d \in Clients : Distinct(toServer[d]) => Distinct(toServer'[d])
    BY <1>2, NoRequests
  <1>4. \A d, e \in Clients : d # e => Ids(toServer'[d]) \cap Ids(toServer'[e]) = {}
    BY <1>3 DEF ControlInv, PlacesPart
  <1>5. PlacesPart'
    BY <1>1, <1>3, <1>4 DEF ControlInv, PlacesPart
  <1>6. FreshPart'
    BY <1>1, <1>3 DEF ControlInv, FreshPart
  <1>7. ASSUME NEW q \in Request, Awaited(q)
        PROVE  task'[q.client] = "waiting" /\ replies'[q.client] = NoReply /\ serving'[q.client] = {q.id}
    <2>1. q.client \in Clients /\ q.client # c
      BY <1>7 DEF Awaited, Request
    <2> QED BY <1>7, <2>1 DEF Awaited
  <1>8. ServedPart'
    <2>1. \A k \in DOMAIN requests : requests[k] \in Request /\ Awaited(requests[k])
      BY QueueFacts DEF ControlInv, Types, IpcTypes, ServedPart
    <2>2. \A q \in inHand : q \in Request /\ Awaited(q) /\ runs[q.id] = 1
      BY DEF ControlInv, Types, ServiceTypes, ServedPart
    <2> QED BY <1>1, <1>7, <2>1, <2>2 DEF ServedPart, Awaited
  <1>9. ASSUME NEW d \in Clients, replies'[d] # NoReply
        PROVE  task'[d] = "waiting" /\ \A r \in serving'[d] : runs[r] = 1
    <2>1. replies[d] = replies'[d] /\ task'[d] = task[d] /\ serving'[d] = serving[d]
      BY <1>9
    <2> QED BY <1>9, <2>1 DEF ControlInv, AnsweredPart
  <1>10. ASSUME NEW d \in Clients, NEW k \in DOMAIN toClient'[d], toClient'[d][k].is = "response"
         PROVE  runs[toClient'[d][k].id] = 1
    <2>1. CASE \E j \in DOMAIN toClient[d] : toClient'[d][k] = toClient[d][j]
      BY <1>10, <2>1 DEF ControlInv, AnsweredPart
    <2>2. CASE replies[c] # NoReply /\ toClient'[d][k].id \in serving[c]
      BY <2>2 DEF ControlInv, AnsweredPart
    <2> QED BY <1>10, <2>1, <2>2
  <1>11. AnsweredPart'
    BY <1>1, <1>9, <1>10 DEF ControlInv, AnsweredPart
  <1> QED BY <1>5, <1>6, <1>8, <1>11 DEF RequestParts

LEMMA ReadingKeepsRequests ==
    ASSUME ControlInv, NEW c \in Clients, ReadRequest(c, shutdown),
           UNCHANGED <<outbound, outcome, runs, inHand>>
    PROVE  RequestParts'
  <1> DEFINE h == Head(toServer[c])
             e == [h EXCEPT !.client = c]
  <1>1. /\ task[c] = "loop" /\ toServer[c] # <<>> /\ Len(requests) < RequestCapacity
        /\ requests' = Append(requests, e) /\ serving' = [serving EXCEPT ![c] = {h.id}]
        /\ toServer' = [toServer EXCEPT ![c] = Tail(@)] /\ task' = [task EXCEPT ![c] = "waiting"]
        /\ replies' = replies /\ toClient' = toClient
        /\ outbound' = outbound /\ outcome' = outcome /\ runs' = runs /\ inHand' = inHand
    BY DEF ReadRequest
  <1>2. /\ requests \in Seq(Request) /\ toServer \in [Clients -> Seq(Request)] /\ toServer[c] \in Seq(Request)
        /\ task \in [Clients -> {"none", "accepted", "loop", "waiting"}]
        /\ serving \in [Clients -> SUBSET Requests] /\ replies \in [Clients -> Answers \cup {NoReply}]
        /\ inHand \subseteq Request
    BY DEF ControlInv, Types, IpcTypes, ServiceTypes
  <1>3. /\ h \in Request /\ Tail(toServer[c]) \in Seq(Request)
        /\ Ids(toServer[c]) = {h.id} \cup Ids(Tail(toServer[c]))
        /\ Distinct(Tail(toServer[c])) /\ h.id \notin Ids(Tail(toServer[c]))
    BY <1>1, <1>2, RequestTaken DEF ControlInv, PlacesPart
  <1>4. e \in Request /\ e.id = h.id /\ e.client = c
    BY <1>3 DEF Request
  <1> HIDE DEF h, e
  <1>5. /\ h.id \in Ids(toServer[c]) /\ h.id \notin Ids(requests)
    BY <1>3 DEF ControlInv, PlacesPart
  <1>6. /\ Ids(requests') = Ids(requests) \cup {h.id} /\ Distinct(requests')
        /\ \A k \in DOMAIN requests' :
               requests'[k] = e \/ \E j \in DOMAIN requests : requests'[k] = requests[j]
    BY <1>1, <1>2, <1>4, <1>5, RequestPut DEF ControlInv, PlacesPart
  <1>7. toServer'[c] = Tail(toServer[c]) /\ \A d \in Clients : d # c => toServer'[d] = toServer[d]
    BY <1>1, <1>2
  <1>8. /\ Ids(toServer[c]) = {h.id} \cup Ids(toServer'[c]) /\ h.id \notin Ids(toServer'[c])
        /\ Distinct(toServer'[c])
        /\ \A d \in Clients : Ids(toServer'[d]) \subseteq Ids(toServer[d])
        /\ \A d \in Clients : h.id \notin Ids(toServer'[d])
        /\ \A d \in Clients : Distinct(toServer'[d])
        /\ \A d \in Clients : h.id \notin Ids(outbound[d])
    BY <1>3, <1>5, <1>7 DEF ControlInv, PlacesPart
  <1>9. \A d, f \in Clients : d # f => Ids(toServer'[d]) \cap Ids(toServer'[f]) = {}
    BY <1>8 DEF ControlInv, PlacesPart
  <1>10. \A d \in Clients : Ids(requests') \cap (Ids(outbound'[d]) \cup Ids(toServer'[d])) = {}
    BY <1>1, <1>6, <1>8 DEF ControlInv, PlacesPart
  <1>11. PlacesPart'
    BY <1>1, <1>6, <1>8, <1>9, <1>10 DEF ControlInv, PlacesPart
  <1>12. FreshPart'
    BY <1>1, <1>5, <1>6, <1>8 DEF ControlInv, FreshPart
  <1>13. task'[c] = "waiting" /\ serving'[c] = {h.id} /\ replies'[c] = NoReply
         /\ \A d \in Clients : d # c => task'[d] = task[d] /\ serving'[d] = serving[d]
    BY <1>1, <1>2 DEF ControlInv, AnsweredPart
  <1>14. ASSUME NEW q \in Request, Awaited(q)
         PROVE  task'[q.client] = "waiting" /\ replies'[q.client] = NoReply /\ serving'[q.client] = {q.id}
    <2>1. q.client \in Clients /\ q.client # c
      BY <1>1, <1>14 DEF Awaited, Request
    <2> QED BY <1>1, <1>13, <1>14, <2>1 DEF Awaited
  <1>15. ServedPart'
    <2>1. \A k \in DOMAIN requests : requests[k] \in Request /\ Awaited(requests[k])
      BY QueueFacts DEF ControlInv, Types, IpcTypes, ServedPart
    <2>2. \A q \in inHand : q \in Request /\ Awaited(q) /\ runs[q.id] = 1
      BY DEF ControlInv, Types, ServiceTypes, ServedPart
    <2>3. \A k \in DOMAIN requests' :
             /\ task'[requests'[k].client] = "waiting" /\ replies'[requests'[k].client] = NoReply
             /\ serving'[requests'[k].client] = {requests'[k].id}
      BY <1>4, <1>6, <1>13, <1>14, <2>1
    <2> QED BY <1>1, <1>14, <2>2, <2>3 DEF ServedPart, Awaited
  <1>16. ASSUME NEW d \in Clients, replies'[d] # NoReply
         PROVE  task'[d] = "waiting" /\ \A r \in serving'[d] : runs[r] = 1
    BY <1>1, <1>13, <1>16 DEF ControlInv, AnsweredPart
  <1>17. AnsweredPart'
    BY <1>1, <1>16 DEF ControlInv, AnsweredPart
  <1> QED BY <1>11, <1>12, <1>15, <1>17 DEF RequestParts

LEMMA TaskStepKeepsRequests ==
    ASSUME ControlInv, NEW c \in Clients, TaskStep(c)
    PROVE  RequestParts'
  <1>1. UNCHANGED <<outbound, outcome, runs, inHand>>
    BY DEF TaskStep, StillService, clientVars, history
  <1>2. /\ task \in [Clients -> {"none", "accepted", "loop", "waiting"}]
        /\ serving \in [Clients -> SUBSET Requests] /\ replies \in [Clients -> Answers \cup {NoReply}]
        /\ toClient \in [Clients -> Seq(Messages)] /\ \A d \in Clients : toClient[d] \in Seq(Messages)
        /\ published \in Snapshots
    BY DEF ControlInv, Types, IpcTypes
  <1>3. ASSUME NEW e, Say(c, e)
        PROVE  \A d \in Clients : \A k \in DOMAIN toClient'[d] :
                  \/ \E j \in DOMAIN toClient[d] : toClient'[d][k] = toClient[d][j]
                  \/ d = c /\ toClient'[d][k] = e
    <2>1. toClient'[c] = Append(toClient[c], e) /\ \A d \in Clients : d # c => toClient'[d] = toClient[d]
      BY <1>2, <1>3 DEF Say
    <2>2. toClient[c] \in Seq(Messages \cup {e}) /\ e \in Messages \cup {e}
      BY <1>2, SeqMonotonic
    <2>3. /\ DOMAIN Append(toClient[c], e) = DOMAIN toClient[c] \cup {Len(toClient[c]) + 1}
          /\ \A k \in DOMAIN toClient[c] : Append(toClient[c], e)[k] = toClient[c][k]
          /\ Append(toClient[c], e)[Len(toClient[c]) + 1] = e
      BY <2>2, QueueFacts
    <2> QED BY <2>1, <2>3
  <1>4. CASE Ready(c, Open(c)) \/ Event(c, Open(c), shutdown)
    <2>1. /\ Say(c, Snapshot(published)) /\ requests' = requests /\ replies' = replies
          /\ serving' = serving /\ toServer' = toServer /\ task[c] \in {"accepted", "loop"}
      BY <1>4 DEF Ready, Event
    <2>2. \A d \in Clients : d # c => task'[d] = task[d]
      BY <1>2, <1>4 DEF Ready, Event
    <2>3. Snapshot(published).is = "snapshot"
      BY DEF Snapshot
    <2>4. replies[c] = NoReply
      BY <2>1 DEF ControlInv, AnsweredPart
    <2>5. \A d \in Clients : \A k \in DOMAIN toClient'[d] :
              \/ \E j \in DOMAIN toClient[d] : toClient'[d][k] = toClient[d][j]
              \/ toClient'[d][k].is = "snapshot"
      BY <1>3, <2>1, <2>3
    <2> QED BY <1>1, <2>1, <2>2, <2>4, <2>5, TasksKeepRequests
  <1>5. CASE ReadRequest(c, shutdown)
    BY <1>1, <1>5, ReadingKeepsRequests
  <1>6. CASE Respond(c, Open(c))
    <2>1. PICK r \in serving[c] : Say(c, Response(r, replies[c]))
      BY <1>6 DEF Respond
    <2>2. /\ requests' = requests /\ toServer' = toServer /\ replies[c] # NoReply
          /\ task' = [task EXCEPT ![c] = "loop"] /\ serving' = [serving EXCEPT ![c] = {}]
          /\ replies' = [replies EXCEPT ![c] = NoReply]
      BY <1>6 DEF Respond
    <2>3. replies'[c] = NoReply /\ \A d \in Clients : d # c =>
              task'[d] = task[d] /\ serving'[d] = serving[d] /\ replies'[d] = replies[d]
      BY <1>2, <2>2
    <2>4. Response(r, replies[c]).id = r
      BY DEF Response
    <2>5. \A d \in Clients : \A k \in DOMAIN toClient'[d] :
              \/ \E j \in DOMAIN toClient[d] : toClient'[d][k] = toClient[d][j]
              \/ d = c /\ toClient'[d][k].id \in serving[c]
      BY <1>3, <2>1, <2>4
    <2> QED BY <1>1, <2>2, <2>3, <2>5, TasksKeepRequests
  <1>7. CASE TaskEnds(c, Open(c), shutdown)
    <2>1. /\ requests' = requests /\ toClient' = toClient
          /\ toServer' = [toServer EXCEPT ![c] = <<>>]
          /\ task' = [task EXCEPT ![c] = "none"] /\ serving' = [serving EXCEPT ![c] = {}]
          /\ replies' = [replies EXCEPT ![c] = NoReply]
          /\ task[c] # "waiting" \/ replies[c] # NoReply
      BY <1>7 DEF TaskEnds, End
    <2>2. replies'[c] = NoReply /\ \A d \in Clients : d # c =>
              task'[d] = task[d] /\ serving'[d] = serving[d] /\ replies'[d] = replies[d]
      BY <1>2, <2>1
    <2>3. \A d \in Clients : \A k \in DOMAIN toClient'[d] :
              \E j \in DOMAIN toClient[d] : toClient'[d][k] = toClient[d][j]
      BY <2>1
    <2> QED BY <1>1, <2>1, <2>2, <2>3, TasksKeepRequests
  <1> QED BY <1>4, <1>5, <1>6, <1>7 DEF TaskStep

(* What a client does: only its own queue and stream change, a request moves *)
(* from the one to the other, and what was heard of is not fresh again.       *)
LEMMA ClientsKeepRequests ==
    ASSUME ControlInv, NEW c \in Clients,
           UNCHANGED <<requests, replies, serving, runs, inHand>>,
           task' = task \/ (task[c] = "none" /\ task' = [task EXCEPT ![c] = "accepted"]),
           \A d \in Clients : /\ Distinct(outbound'[d]) /\ Distinct(toServer'[d])
                              /\ Ids(outbound'[d]) \cap Ids(toServer'[d]) = {},
           \A d \in Clients : d # c =>
              Ids(outbound'[d]) = Ids(outbound[d]) /\ Ids(toServer'[d]) = Ids(toServer[d]),
           Ids(outbound'[c]) \cup Ids(toServer'[c]) \subseteq Ids(outbound[c]) \cup Ids(toServer[c]),
           \A d \in Clients : \A k \in DOMAIN toClient'[d] :
              \E j \in DOMAIN toClient[d] : toClient'[d][k] = toClient[d][j],
           \A r \in Requests :
              \/ outcome'[r] = outcome[r] \/ outcome'[r] = "lost"
              \/ outcome'[r] \in {"ok", "error"} /\ runs[r] = 1
    PROVE  RequestParts'
  <1>1. /\ requests' = requests /\ replies' = replies /\ serving' = serving /\ runs' = runs
        /\ inHand' = inHand
    OBVIOUS
  <1>2. PlacesPart'
    <2>1. Distinct(requests)
      BY DEF ControlInv, PlacesPart
    <2>2. \A d \in Clients : Ids(requests) \cap (Ids(outbound'[d]) \cup Ids(toServer'[d])) = {}
      BY DEF ControlInv, PlacesPart
    <2>3. ASSUME NEW d \in Clients, NEW e \in Clients, d # e
          PROVE  (Ids(outbound'[d]) \cup Ids(toServer'[d])) \cap (Ids(outbound'[e]) \cup Ids(toServer'[e])) = {}
      <3>1. (Ids(outbound[d]) \cup Ids(toServer[d])) \cap (Ids(outbound[e]) \cup Ids(toServer[e])) = {}
        BY <2>3 DEF ControlInv, PlacesPart
      <3> QED BY <2>3, <3>1
    <2> QED BY <1>1, <2>1, <2>2, <2>3 DEF PlacesPart
  <1>3. \A r \in Requests : outcome[r] # "unsent" => outcome'[r] # "unsent"
    BY DEF ControlInv, FreshPart
  <1>4. FreshPart'
    <2>1. requests \in Seq(Request)
          /\ \A d \in Clients : outbound[d] \in Seq(Request) /\ toServer[d] \in Seq(Request)
      BY DEF ControlInv, Types, IpcTypes, ClientTypes
    <2>2. \A r \in Ids(requests) : r \in Requests /\ runs[r] = 0 /\ outcome'[r] # "unsent"
      BY <1>3, <2>1, IdsAreRequests DEF ControlInv, FreshPart
    <2>3. \A d \in Clients : \A r \in Ids(outbound[d]) \cup Ids(toServer[d]) :
              r \in Requests /\ runs[r] = 0 /\ outcome'[r] # "unsent"
      BY <1>3, <2>1, IdsAreRequests DEF ControlInv, FreshPart
    <2>4. \A r \in Requests : outcome'[r] = "unsent" => runs[r] = 0
      BY DEF ControlInv, FreshPart
    <2> QED BY <1>1, <2>2, <2>3, <2>4 DEF FreshPart
  <1>5. \A d \in Clients : task[d] = "waiting" => task'[d] = "waiting"
    BY DEF ControlInv, Types, IpcTypes
  <1>6. ServedPart'
    <2>1. \A k \in DOMAIN requests : requests[k] \in Request /\ Awaited(requests[k])
      BY QueueFacts DEF ControlInv, Types, IpcTypes, ServedPart
    <2>2. \A q \in inHand : q \in Request /\ Awaited(q) /\ runs[q.id] = 1
      BY DEF ControlInv, Types, ServiceTypes, ServedPart
    <2>3. \A q \in Request : Awaited(q) =>
             /\ task'[q.client] = "waiting" /\ replies[q.client] = NoReply
             /\ serving[q.client] = {q.id}
      BY <1>5 DEF Awaited, Request
    <2>4. \A k \in DOMAIN requests :
             /\ task'[requests[k].client] = "waiting" /\ replies[requests[k].client] = NoReply
             /\ serving[requests[k].client] = {requests[k].id}
      BY <2>1, <2>3
    <2>5. \A q \in inHand :
             /\ task'[q.client] = "waiting" /\ replies[q.client] = NoReply
             /\ serving[q.client] = {q.id} /\ runs[q.id] = 1
      BY <2>2, <2>3
    <2> QED BY <1>1, <2>4, <2>5 DEF ServedPart, Awaited
  <1>7. AnsweredPart'
    <2>1. \A d \in Clients : replies[d] # NoReply =>
              task'[d] = "waiting" /\ \A r \in serving[d] : runs[r] = 1
      BY <1>5 DEF ControlInv, AnsweredPart
    <2>2. \A d \in Clients : \A k \in DOMAIN toClient'[d] :
              toClient'[d][k].is = "response" => runs[toClient'[d][k].id] = 1
      BY DEF ControlInv, AnsweredPart
    <2>3. \A r \in Requests : outcome'[r] \in {"ok", "error"} => runs[r] = 1
      BY DEF ControlInv, AnsweredPart
    <2> QED BY <1>1, <2>1, <2>2, <2>3 DEF AnsweredPart
  <1> QED BY <1>2, <1>4, <1>6, <1>7 DEF RequestParts

LEMMA ClientTypeFacts ==
    ASSUME ControlInv
    PROVE  /\ task \in [Clients -> {"none", "accepted", "loop", "waiting"}]
           /\ link \in [Clients -> {"connecting", "connected", "gone"}]
           /\ outbound \in [Clients -> Seq(Request)] /\ toServer \in [Clients -> Seq(Request)]
           /\ toClient \in [Clients -> Seq(Messages)]
           /\ outcome \in [Requests -> {"unsent", "waiting", "ok", "error", "lost"}]
           /\ \A d \in Clients : /\ outbound[d] \in Seq(Request) /\ toServer[d] \in Seq(Request)
                                 /\ toClient[d] \in Seq(Messages)
                                 /\ Distinct(outbound[d]) /\ Distinct(toServer[d])
                                 /\ Ids(outbound[d]) \cap Ids(toServer[d]) = {}
  <1>1. /\ task \in [Clients -> {"none", "accepted", "loop", "waiting"}]
        /\ link \in [Clients -> {"connecting", "connected", "gone"}]
        /\ outbound \in [Clients -> Seq(Request)] /\ toServer \in [Clients -> Seq(Request)]
        /\ toClient \in [Clients -> Seq(Messages)]
        /\ outcome \in [Requests -> {"unsent", "waiting", "ok", "error", "lost"}]
    BY DEF ControlInv, Types, IpcTypes, ClientTypes
  <1>2. \A d \in Clients : /\ Distinct(outbound[d]) /\ Distinct(toServer[d])
                           /\ Ids(outbound[d]) \cap Ids(toServer[d]) = {}
    BY DEF ControlInv, PlacesPart
  <1> QED BY <1>1, <1>2

LEMMA LinkStepKeepsRequests ==
    ASSUME ControlInv, NEW c \in Clients, LinkStep(c)
    PROVE  RequestParts'
  <1>1. /\ outbound \in [Clients -> Seq(Request)] /\ toServer \in [Clients -> Seq(Request)]
        /\ toClient \in [Clients -> Seq(Messages)]
        /\ outcome \in [Requests -> {"unsent", "waiting", "ok", "error", "lost"}]
        /\ \A d \in Clients : /\ outbound[d] \in Seq(Request) /\ toServer[d] \in Seq(Request)
                              /\ toClient[d] \in Seq(Messages)
                              /\ Distinct(outbound[d]) /\ Distinct(toServer[d])
                              /\ Ids(outbound[d]) \cap Ids(toServer[d]) = {}
    BY ClientTypeFacts
  <1>2. UNCHANGED <<runs, inHand>>
    BY DEF LinkStep, StillService, history
  <1>3. ASSUME NEW q, q = toClient[c] \/ (q = <<>>) \/ (toClient[c] # <<>> /\ q = Tail(toClient[c])),
               toClient' = [toClient EXCEPT ![c] = q]
        PROVE  \A d \in Clients : \A k \in DOMAIN toClient'[d] :
                  \E j \in DOMAIN toClient[d] : toClient'[d][k] = toClient[d][j]
    <2>1. toClient'[c] = q /\ \A d \in Clients : d # c => toClient'[d] = toClient[d]
      BY <1>1, <1>3
    <2>2. \A k \in DOMAIN q : \E j \in DOMAIN toClient[c] : q[k] = toClient[c][j]
      <3>1. CASE q = <<>>
        BY <3>1, NoRequests
      <3>2. CASE toClient[c] # <<>> /\ q = Tail(toClient[c])
        <4>1. \A k \in DOMAIN Tail(toClient[c]) :
                 k + 1 \in DOMAIN toClient[c] /\ Tail(toClient[c])[k] = toClient[c][k + 1]
          BY <1>1, <3>2, QueueFacts
        <4> QED BY <3>2, <4>1
      <3> QED BY <1>3, <3>1, <3>2
    <2> QED BY <2>1, <2>2
  <1>4. CASE Connect(c, Listening)
    <2>1. /\ requests' = requests /\ replies' = replies /\ serving' = serving
          /\ outbound' = outbound /\ toServer' = toServer /\ toClient' = toClient
          /\ outcome' = outcome /\ task[c] = "none" /\ task' = [task EXCEPT ![c] = "accepted"]
      BY <1>4 DEF Connect, wires
    <2> QED BY <1>1, <1>2, <2>1, ClientsKeepRequests
  <1>5. CASE Transmit(c)
    <2> DEFINE h == Head(outbound[c])
    <2>1. /\ outbound[c] # <<>> /\ outbound' = [outbound EXCEPT ![c] = Tail(@)]
          /\ requests' = requests /\ replies' = replies /\ serving' = serving /\ task' = task
      BY <1>5 DEF Transmit
    <2>2. /\ h \in Request /\ Tail(outbound[c]) \in Seq(Request)
          /\ Ids(outbound[c]) = {h.id} \cup Ids(Tail(outbound[c]))
          /\ Distinct(Tail(outbound[c])) /\ h.id \notin Ids(Tail(outbound[c]))
      BY <1>1, <2>1, RequestTaken
    <2>3. outbound'[c] = Tail(outbound[c]) /\ \A d \in Clients : d # c => outbound'[d] = outbound[d]
      BY <1>1, <2>1
    <2>4. CASE /\ toServer' = [toServer EXCEPT ![c] = Append(@, h)]
               /\ UNCHANGED <<outcome, toClient>>
      <3> HIDE DEF h
      <3>1. toServer'[c] = Append(toServer[c], h)
            /\ \A d \in Clients : d # c => toServer'[d] = toServer[d]
        BY <1>1, <2>4
      <3>2. h.id \notin Ids(toServer[c])
        BY <1>1, <2>2
      <3>3. Ids(toServer'[c]) = Ids(toServer[c]) \cup {h.id} /\ Distinct(toServer'[c])
        BY <1>1, <2>2, <3>1, <3>2, RequestPut
      <3>4. \A d \in Clients : /\ Distinct(outbound'[d]) /\ Distinct(toServer'[d])
                               /\ Ids(outbound'[d]) \cap Ids(toServer'[d]) = {}
        BY <1>1, <2>2, <2>3, <3>1, <3>3
      <3>5. Ids(outbound'[c]) \cup Ids(toServer'[c]) \subseteq Ids(outbound[c]) \cup Ids(toServer[c])
        BY <2>2, <2>3, <3>3
      <3>6. \A d \in Clients : d # c =>
                Ids(outbound'[d]) = Ids(outbound[d]) /\ Ids(toServer'[d]) = Ids(toServer[d])
        BY <2>3, <3>1
      <3> QED BY <1>2, <2>1, <2>4, <3>4, <3>5, <3>6, ClientsKeepRequests
    <2>5. CASE /\ Resolve({h.id} \cup Unanswered(c), "lost")
               /\ DropConnection(c) /\ UNCHANGED toServer
      <3>1. \A r \in Requests : outcome'[r] = outcome[r] \/ outcome'[r] = "lost"
        BY <2>5 DEF Resolve
      <3>2. toClient' = [toClient EXCEPT ![c] = <<>>] /\ toServer' = toServer
        BY <2>5 DEF DropConnection
      <3>3. \A d \in Clients : \A k \in DOMAIN toClient'[d] :
                \E j \in DOMAIN toClient[d] : toClient'[d][k] = toClient[d][j]
        BY <1>3, <3>2
      <3> HIDE DEF h
      <3>4. \A d \in Clients : /\ Distinct(outbound'[d]) /\ Distinct(toServer'[d])
                               /\ Ids(outbound'[d]) \cap Ids(toServer'[d]) = {}
        BY <1>1, <2>2, <2>3, <3>2
      <3>5. Ids(outbound'[c]) \cup Ids(toServer'[c]) \subseteq Ids(outbound[c]) \cup Ids(toServer[c])
        BY <2>2, <2>3, <3>2
      <3>6. \A d \in Clients : d # c =>
                Ids(outbound'[d]) = Ids(outbound[d]) /\ Ids(toServer'[d]) = Ids(toServer[d])
        BY <2>3, <3>2
      <3> QED BY <1>2, <2>1, <3>1, <3>3, <3>4, <3>5, <3>6, ClientsKeepRequests
    <2> QED BY <1>5, <2>4, <2>5 DEF Transmit
  <1>6. CASE Receive(c)
    <2> DEFINE m == Head(toClient[c])
    <2>1. /\ toClient[c] # <<>> /\ toClient' = [toClient EXCEPT ![c] = Tail(@)]
          /\ requests' = requests /\ replies' = replies /\ serving' = serving /\ task' = task
          /\ outbound' = outbound /\ toServer' = toServer
          /\ \/ m.is = "snapshot" /\ outcome' = outcome
             \/ m.is # "snapshot" /\ Resolve({m.id} \cap pending[c], m.reply.outcome)
      BY <1>6 DEF Receive
    <2>2. toClient' = [toClient EXCEPT ![c] = Tail(toClient[c])]
      BY <2>1
    <2>3. \A d \in Clients : \A k \in DOMAIN toClient'[d] :
              \E j \in DOMAIN toClient[d] : toClient'[d][k] = toClient[d][j]
      BY <1>3, <2>1, <2>2
    <2>4. m \in Messages /\ 1 \in DOMAIN toClient[c] /\ m = toClient[c][1]
      BY <1>1, <2>1, QueueFacts
    <2>5. m.is # "snapshot" => m.is = "response" /\ runs[m.id] = 1 /\ m.reply.outcome \in {"ok", "error"}
      BY <2>4 DEF Messages, SnapshotMessages, ResponseMessages, Answers, ControlInv, AnsweredPart
    <2> HIDE DEF m
    <2>6. \A r \in Requests :
              outcome'[r] = outcome[r] \/ (outcome'[r] \in {"ok", "error"} /\ runs[r] = 1)
      BY <2>1, <2>5 DEF Resolve
    <2> QED BY <1>1, <1>2, <2>1, <2>3, <2>6, ClientsKeepRequests
  <1>7. CASE Disconnected(c)
    <2>1. /\ toClient' = [toClient EXCEPT ![c] = <<>>]
          /\ requests' = requests /\ replies' = replies /\ serving' = serving /\ task' = task
          /\ outbound' = outbound /\ toServer' = toServer
      BY <1>7 DEF Disconnected, DropConnection
    <2>2. \A r \in Requests : outcome'[r] = outcome[r] \/ outcome'[r] = "lost"
      BY <1>7 DEF Disconnected, Resolve
    <2>3. \A d \in Clients : \A k \in DOMAIN toClient'[d] :
              \E j \in DOMAIN toClient[d] : toClient'[d][k] = toClient[d][j]
      BY <1>3, <2>1
    <2> QED BY <1>1, <1>2, <2>1, <2>2, <2>3, ClientsKeepRequests
  <1> QED BY <1>4, <1>5, <1>6, <1>7 DEF LinkStep, ClientStep

LEMMA ExitKeepsRequests ==
    ASSUME ControlInv, NEW c \in Clients, Exit(c), UNCHANGED <<runs, inHand>>
    PROVE  RequestParts'
  <1>1. /\ outbound \in [Clients -> Seq(Request)] /\ toServer \in [Clients -> Seq(Request)]
        /\ toClient \in [Clients -> Seq(Messages)]
        /\ \A d \in Clients : /\ Distinct(outbound[d]) /\ Distinct(toServer[d])
                              /\ Ids(outbound[d]) \cap Ids(toServer[d]) = {}
    BY ClientTypeFacts
  <1>2. /\ toClient' = [toClient EXCEPT ![c] = <<>>] /\ outbound' = [outbound EXCEPT ![c] = <<>>]
        /\ requests' = requests /\ replies' = replies /\ serving' = serving /\ task' = task
        /\ toServer' = toServer
    BY DEF Exit
  <1>3. \A r \in Requests : outcome'[r] = outcome[r] \/ outcome'[r] = "lost"
    BY DEF Exit, Resolve
  <1>4. /\ \A d \in Clients : toClient'[d] = toClient[d] \/ toClient'[d] = <<>>
        /\ \A d \in Clients : d # c => outbound'[d] = outbound[d]
        /\ outbound'[c] = <<>>
    BY <1>1, <1>2
  <1>5. \A d \in Clients : \A k \in DOMAIN toClient'[d] :
            \E j \in DOMAIN toClient[d] : toClient'[d][k] = toClient[d][j]
    BY <1>4, NoRequests
  <1>6. /\ Ids(outbound'[c]) = {} /\ Distinct(outbound'[c])
    BY <1>4, NoRequests
  <1>7. \A d \in Clients : /\ Distinct(outbound'[d]) /\ Distinct(toServer'[d])
                           /\ Ids(outbound'[d]) \cap Ids(toServer'[d]) = {}
    BY <1>1, <1>2, <1>4, <1>6
  <1> QED BY <1>2, <1>3, <1>4, <1>5, <1>6, <1>7, ClientsKeepRequests

(* A request that is issued was in no place.                                 *)
LEMMA IssueKeepsRequests ==
    ASSUME ControlInv, NEW c \in Clients, NEW r \in Requests, NEW kind \in Kinds,
           Issue(c, r, kind), UNCHANGED <<runs, inHand>>
    PROVE  RequestParts'
  <1> DEFINE e == [id |-> r, kind |-> kind, client |-> c]
  <1>1. /\ outbound \in [Clients -> Seq(Request)] /\ toServer \in [Clients -> Seq(Request)]
        /\ outcome \in [Requests -> {"unsent", "waiting", "ok", "error", "lost"}]
        /\ \A d \in Clients : /\ outbound[d] \in Seq(Request) /\ toServer[d] \in Seq(Request)
                              /\ Distinct(outbound[d]) /\ Distinct(toServer[d])
                              /\ Ids(outbound[d]) \cap Ids(toServer[d]) = {}
    BY ClientTypeFacts
  <1>2. /\ outbound' = [outbound EXCEPT ![c] = Append(@, e)] /\ Resolve({r}, "waiting")
        /\ requests' = requests /\ replies' = replies /\ serving' = serving /\ task' = task
        /\ toServer' = toServer /\ toClient' = toClient
        /\ runs' = runs /\ inHand' = inHand
    BY DEF Issue, ipcVars, wires
  <1>3. outcome[r] = "unsent"
    <2>1. r >= r
      BY ClientAssumption
    <2> QED BY <2>1 DEF Issue
  <1>4. /\ outcome'[r] = "waiting" /\ \A q \in Requests : q # r => outcome'[q] = outcome[q]
    BY <1>2 DEF Resolve
  <1>5. /\ runs[r] = 0 /\ r \notin Ids(requests)
        /\ \A d \in Clients : r \notin Ids(outbound[d]) /\ r \notin Ids(toServer[d])
    BY <1>3 DEF ControlInv, FreshPart
  <1>6. e \in Request /\ e.id = r
    BY DEF Request
  <1> HIDE DEF e
  <1>7. outbound'[c] = Append(outbound[c], e) /\ \A d \in Clients : d # c => outbound'[d] = outbound[d]
    BY <1>1, <1>2
  <1>8. Ids(outbound'[c]) = Ids(outbound[c]) \cup {r} /\ Distinct(outbound'[c])
    BY <1>1, <1>5, <1>6, <1>7, RequestPut
  <1>9. \A d \in Clients : /\ Distinct(outbound'[d])
                           /\ Ids(outbound'[d]) \subseteq Ids(outbound[d]) \cup {r}
                           /\ d # c => Ids(outbound'[d]) = Ids(outbound[d])
    BY <1>1, <1>7, <1>8
  <1>10. ASSUME NEW d \in Clients, NEW f \in Clients, d # f
         PROVE  Ids(outbound'[d]) \cap Ids(outbound'[f]) = {}
    <2>1. Ids(outbound[d]) \cap Ids(outbound[f]) = {}
      BY <1>10 DEF ControlInv, PlacesPart
    <2>2. d # c \/ f # c
      BY <1>10
    <2> QED BY <1>5, <1>9, <2>1, <2>2
  <1>11. PlacesPart'
    <2>1. \A d \in Clients : Ids(requests) \cap (Ids(outbound'[d]) \cup Ids(toServer[d])) = {}
      BY <1>5, <1>9 DEF ControlInv, PlacesPart
    <2>2. \A d, f \in Clients : Ids(outbound'[d]) \cap Ids(toServer[f]) = {}
      BY <1>5, <1>9 DEF ControlInv, PlacesPart
    <2> QED BY <1>2, <1>9, <1>10, <2>1, <2>2 DEF ControlInv, PlacesPart
  <1>12. FreshPart'
    <2>1. requests \in Seq(Request)
      BY DEF ControlInv, Types, IpcTypes
    <2>2. \A q \in Ids(requests) : runs[q] = 0 /\ outcome'[q] # "unsent"
      BY <1>4, <2>1, IdsAreRequests DEF ControlInv, FreshPart
    <2>3. \A d \in Clients : \A q \in Ids(outbound[d]) \cup Ids(toServer[d]) :
              runs[q] = 0 /\ outcome'[q] # "unsent"
      BY <1>1, <1>4, IdsAreRequests DEF ControlInv, FreshPart
    <2>4. \A d \in Clients : \A q \in Ids(outbound'[d]) \cup Ids(toServer[d]) :
              runs[q] = 0 /\ outcome'[q] # "unsent"
      BY <1>4, <1>5, <1>9, <2>3
    <2>5. \A q \in Requests : outcome'[q] = "unsent" => runs[q] = 0
      BY <1>4 DEF ControlInv, FreshPart
    <2> QED BY <1>2, <2>2, <2>4, <2>5 DEF FreshPart
  <1>13. ServedPart'
    BY <1>2 DEF ControlInv, ServedPart, Awaited
  <1>14. AnsweredPart'
    <2>1. \A q \in Requests : outcome'[q] \in {"ok", "error"} => runs[q] = 1
      BY <1>4 DEF ControlInv, AnsweredPart
    <2> QED BY <1>2, <2>1 DEF ControlInv, AnsweredPart
  <1> QED BY <1>11, <1>12, <1>13, <1>14 DEF RequestParts

LEMMA UserStepKeepsRequests ==
    ASSUME ControlInv, NEW c \in Clients, UserStep(c)
    PROVE  RequestParts'
  <1>1. UNCHANGED <<runs, inHand>>
    BY DEF UserStep, StillService, history
  <1>2. CASE Exit(c)
    BY <1>1, <1>2, ExitKeepsRequests
  <1>3. ASSUME NEW r \in Requests, NEW kind \in Kinds, Issue(c, r, kind) PROVE RequestParts'
    BY <1>1, <1>3, IssueKeepsRequests
  <1> QED BY <1>2, <1>3 DEF UserStep

-----------------------------------------------------------------------------
(* Types.  Each change of the settings is a request that is handled.         *)
LEMMA HandledFacts ==
    ASSUME ControlInv
    PROVE  /\ Handled \in Nat /\ Handled <= MaxSetting
           /\ runs' = runs => Handled' = Handled
           /\ Take => Handled' = Handled + 1 /\ Handled' <= MaxSetting
  <1> DEFINE done == {r \in Requests : runs[r] = 1}
             after == {r \in Requests : runs'[r] = 1}
  <1>1. IsFiniteSet(Requests) /\ Cardinality(Requests) \in Nat /\ Cardinality(Requests) <= MaxSetting
        /\ MaxSetting \in Nat
    BY ControlAssumption, StoreAssumption, FS_CardinalityType
  <1>2. /\ done \subseteq Requests /\ after \subseteq Requests
        /\ IsFiniteSet(done) /\ IsFiniteSet(after)
        /\ Cardinality(done) \in Nat /\ Cardinality(after) \in Nat
        /\ Cardinality(done) <= Cardinality(Requests) /\ Cardinality(after) <= Cardinality(Requests)
    BY <1>1, FS_Subset, FS_CardinalityType
  <1>3. Handled = Cardinality(done) /\ Handled' = Cardinality(after)
    BY DEF Handled
  <1>4. runs' = runs => Handled' = Handled
    BY DEF Handled
  <1>5. ASSUME Take PROVE Cardinality(after) = Cardinality(done) + 1
    <2>1. /\ Head(requests).id \in Requests
          /\ runs[Head(requests).id] = 0 /\ runs'[Head(requests).id] = 1
          /\ \A r \in Requests : r # Head(requests).id => runs'[r] = runs[r]
      BY <1>5, RequestIsTaken DEF Request
    <2>2. after = done \cup {Head(requests).id} /\ Head(requests).id \notin done
      BY <2>1
    <2> HIDE DEF after, done
    <2> QED BY <1>2, <2>2, FS_AddElement
  <1> HIDE DEF after, done
  <1> QED BY <1>1, <1>2, <1>3, <1>4, <1>5

LEMMA StoreTypes ==
    ASSUME ControlInv, NEW w \in Writers, NEW config \in AppConfig, StoreOp(w, config),
           Handled' \in Nat, Handled <= Handled', config.setting <= Handled'
    PROVE  StoreTypeOK' /\ Bounded(Handled)'
  <1>1. PICK n \in Nat : n = Handled'
    OBVIOUS
  <1>2. StoreTypeOK /\ Bounded(Handled) /\ Handled \in Nat /\ Handled <= n
    BY <1>1, HandledFacts DEF ControlInv, Types, CountedPart
  <1>3. \A s \in Nat : s <= Handled => s <= n
    BY <1>2
  <1>4. \A f \in File : f.config.setting \in Nat
    BY DEF File, AppConfig
  <1>5. /\ file \in File /\ \A f \in entries : f \in File
        /\ \A name \in Names : temporaries[name].file \in File
        /\ \A v \in Writers : saves[v].config.setting \in Nat
    BY <1>2 DEF StoreTypeOK, AppConfig
  <1>6. Bounded(n)
    BY <1>2, <1>3, <1>4, <1>5 DEF Bounded
  <1>7. StoreTypeOK' /\ Bounded(n)'
    BY <1>1, <1>2, <1>6, StoreMoves
  <1> QED BY <1>1, <1>7 DEF Bounded

Saves ==
    \/ ServiceSaves \/ ServiceReplaces \/ ServiceSaved \/ ServiceSaveFails
    \/ (\E t \in 0..MaxToken : Granted(t))
    \/ EngineSaves \/ EngineReplaces \/ EngineSaved \/ EngineReopens \/ Shutdown

LEMMA SavesRest ==
    ASSUME ControlInv, Saves
    PROVE  /\ UNCHANGED <<ipcVars, clientVars>> /\ UNCHANGED requestVars
           /\ UNCHANGED <<epoch, setting, token, revision, inHand, legacy, runs>>
           /\ Running' = Running
           /\ service' \in {service} \cup {"saved"}
           /\ engine' \in {"none", "opening", "saving", "running"}
  <1>1. CASE ServiceSaves \/ ServiceReplaces \/ ServiceSaved \/ ServiceSaveFails
    <2>1. UNCHANGED <<ipcVars, clientVars, epoch, setting, token, revision, inHand, engine, legacy, runs>>
      BY <1>1 DEF ServiceSaves, ServiceReplaces, ServiceSaved, ServiceSaveFails, ClientsUnchanged,
                  ServiceRest, IpcRest, Unpublished, ipcVars, wires, history
    <2>2. service' = service \/ (service' = "saved" /\ Running)
      <3>1. SyncDirectory("service") => Saving("service")
        BY DEF SyncDirectory, At, Saving
      <3>2. SyncDirectory("service") \/ SaveFails("service") => service = "saving"
        BY <3>1 DEF ControlInv, SavingPart, SaveFails
      <3> QED BY <1>1, <3>2 DEF ServiceSaves, ServiceReplaces, ServiceSaved, ServiceSaveFails, Running
    <2> QED BY <2>1, <2>2 DEF requestVars, ipcVars, clientVars, wires, Running, ControlInv, Types, ServiceTypes
  <1>2. CASE \/ (\E t \in 0..MaxToken : Granted(t))
             \/ EngineSaves \/ EngineReplaces \/ EngineSaved \/ EngineReopens \/ Shutdown
    <2>1. UNCHANGED <<ipcVars, clientVars, service, epoch, setting, token, revision, inHand, legacy, runs>>
      BY <1>2 DEF Granted, EngineSaves, EngineReplaces, EngineSaved, EngineReopens, Shutdown,
                  EngineRest, ClientsUnchanged, history
    <2>2. engine' \in {engine, "none", "opening", "saving", "running"}
      BY <1>2 DEF Granted, EngineSaves, EngineReplaces, EngineSaved, EngineReopens, Shutdown
    <2> QED BY <2>1, <2>2 DEF requestVars, ipcVars, clientVars, wires, Running, ControlInv, Types, ServiceTypes
  <1> QED BY <1>1, <1>2 DEF Saves

LEMMA SavesKeepTypes ==
    ASSUME ControlInv, Saves
    PROVE  Types'
  <1>1. /\ UNCHANGED <<ipcVars, clientVars>>
        /\ UNCHANGED <<epoch, setting, token, revision, inHand, legacy, runs>>
        /\ service' \in {service} \cup {"saved"}
        /\ engine' \in {"none", "opening", "saving", "running"}
    BY SavesRest
  <1>2. Handled' = Handled /\ Handled \in Nat /\ Handled' \in Nat /\ Handled <= Handled'
    BY <1>1, HandledFacts
  <1>3. IpcTypes' /\ ClientTypes'
    BY <1>1 DEF ControlInv, Types, IpcTypes, ClientTypes, ipcVars, clientVars, wires
  <1>4. shutdown' \in BOOLEAN
    BY DEF ControlInv, Types, ServiceTypes, Saves, ServiceSaves, ServiceReplaces, ServiceSaved,
           ServiceSaveFails, ServiceRest, Granted, EngineSaves, EngineReplaces, EngineSaved,
           EngineReopens, Shutdown, EngineRest
  <1>5. ServiceTypes'
    BY <1>1, <1>4 DEF ControlInv, Types, ServiceTypes
  <1>6. "service" \in Writers /\ "engine" \in Writers
    BY ControlAssumption
  <1>7. StoreTypeOK /\ Bounded(Handled) /\ legacy \in AppConfig /\ legacy.setting = 0
        /\ promised \in Nat /\ stored \in BOOLEAN /\ promised <= Handled
    BY DEF ControlInv, Types, ServiceTypes, CountedPart, HistoryTypes
  <1>8. StoreTypeOK' /\ Bounded(Handled)'
    <2>1. CASE ServiceSaves \/ ServiceReplaces \/ ServiceSaved \/ ServiceSaveFails
      <3>1. StoreOp("service", Default)
        BY <2>1 DEF ServiceSaves, ServiceReplaces, ServiceSaved, ServiceSaveFails, SaveStep, StoreOp
      <3> QED BY <1>2, <1>6, <3>1, FilesOfTheStore, StoreTypes
    <2>2. CASE EngineSaves \/ EngineReplaces \/ EngineSaved \/ EngineReopens \/ Shutdown
      <3>1. StoreOp("engine", Default)
        BY <2>2 DEF EngineSaves, EngineReplaces, EngineSaved, EngineReopens, Shutdown,
                    StoreUnchanged, SaveStep, StoreOp
      <3> QED BY <1>2, <1>6, <3>1, FilesOfTheStore, StoreTypes
    <2>3. ASSUME NEW t \in 0..MaxToken, Granted(t) PROVE StoreTypeOK' /\ Bounded(Handled)'
      <3> DEFINE config == [Loaded(legacy) EXCEPT !.token = t]
      <3>1. Loaded(legacy) \in AppConfig /\ Loaded(legacy).setting <= Handled
        BY <1>2, <1>7, LoadedIsConfig
      <3>2. config \in AppConfig /\ config.setting = Loaded(legacy).setting
        BY <3>1 DEF AppConfig
      <3>3. StoreOp("engine", config)
        BY <2>3 DEF Granted, StoreUnchanged, StoreOp
      <3> HIDE DEF config
      <3>4. config.setting <= Handled'
        BY <1>2, <3>1, <3>2
      <3> QED BY <1>2, <1>6, <3>2, <3>3, <3>4, StoreTypes
    <2> QED BY <2>1, <2>2, <2>3 DEF Saves
  <1>9. promised' \in Nat /\ promised' <= promised /\ stored' \in BOOLEAN
    <2>1. NewSetting("engine") \in Nat
      BY <1>6, <1>7 DEF NewSetting, Temporary, StoreTypeOK, File, AppConfig
    <2>2. ASSUME Undoes("engine")
          PROVE  /\ stored' = stored \/ stored' = FALSE
                 /\ \/ promised' = promised
                    \/ promised' = NewSetting("engine") /\ NewSetting("engine") < promised
      <3>1. stored' = stored \/ stored' = FALSE
        BY <2>2, Zenon DEF Undoes
      <3>2. promised' = promised \/ (promised' = NewSetting("engine") /\ NewSetting("engine") < promised)
        BY <2>2, Zenon DEF Undoes
      <3> QED BY <3>1, <3>2
    <2>3. (file.config.setting = setting) \in BOOLEAN
      BY Zenon
    <2>4. \/ promised' = promised /\ stored' = stored
          \/ promised' = promised /\ stored' = (file.config.setting = setting)
          \/ Undoes("engine")
      BY DEF Saves, ServiceSaves, ServiceReplaces, ServiceSaved, ServiceSaveFails, history, Granted,
             EngineSaves, EngineReplaces, EngineSaved, EngineReopens, Shutdown
    <2>5. promised' \in Nat /\ promised' <= promised
      <3>1. promised' = promised \/ (promised' = NewSetting("engine") /\ NewSetting("engine") < promised)
        BY <2>2, <2>4
      <3> QED BY <1>7, <2>1, <3>1
    <2>6. stored' \in BOOLEAN
      BY <1>7, <2>2, <2>3, <2>4, Zenon
    <2> QED BY <2>5, <2>6
  <1>10. HistoryTypes'
    BY <1>1, <1>9 DEF ControlInv, Types, HistoryTypes
  <1>11. CountedPart'
    <2>1. promised' <= Handled'
      BY <1>2, <1>7, <1>9
    <2>2. setting' <= Handled'
      BY <1>1, <1>2 DEF ControlInv, Types, CountedPart
    <2> QED BY <1>8, <2>1, <2>2 DEF CountedPart
  <1> QED BY <1>3, <1>5, <1>8, <1>10, <1>11 DEF Types

LEMMA SnapshotTypes ==
    ASSUME NEW e \in Nat, NEW r \in Nat, NEW s \in Nat
    PROVE  [epoch |-> e, revision |-> r, setting |-> s] \in Snapshots
  BY DEF Snapshots

LEMMA StartsKeepTypes ==
    ASSUME ControlInv, Start \/ StartFails
    PROVE  Types'
  <1>1. /\ UNCHANGED <<clientVars, requests, replies, task, serving, wires, shutdown, inHand, engine,
                       legacy, runs, stored, promised>>
        /\ service' \in {service, "opening"} /\ epoch' = epoch + 1
    BY DEF Start, StartFails, ClientsUnchanged, ipcVars, history
  <1>2. Handled' = Handled /\ Handled \in Nat
    BY <1>1, HandledFacts
  <1>3. StoreTypeOK /\ Bounded(Handled) /\ legacy \in AppConfig /\ legacy.setting = 0 /\ epoch \in Nat
        /\ setting \in Nat /\ setting <= Handled /\ token \in 0..MaxToken /\ revision \in Nat
        /\ published \in Snapshots
    BY DEF ControlInv, Types, ServiceTypes, IpcTypes, CountedPart
  <1>4. Loaded(legacy) \in AppConfig /\ Loaded(legacy).setting <= Handled
    BY <1>2, <1>3, LoadedIsConfig
  <1>5. Loaded(legacy).setting \in Nat /\ Loaded(legacy).token \in 0..MaxToken
    BY <1>4 DEF AppConfig
  <1>6. \/ /\ setting' = Loaded(legacy).setting /\ token' = Loaded(legacy).token /\ revision' = 0
           /\ published' = [epoch |-> epoch + 1, revision |-> 0, setting |-> Loaded(legacy).setting]
        \/ UNCHANGED <<setting, token, revision, published>>
    BY DEF Start, StartFails, ipcVars
  <1>7. setting' \in Nat /\ setting' <= Handled /\ token' \in 0..MaxToken /\ revision' \in Nat
        /\ published' \in Snapshots
    BY <1>3, <1>4, <1>5, <1>6, SnapshotTypes
  <1>8. StoreTypeOK' /\ Bounded(Handled)'
    <2>1. StoreOp("service", Default)
      BY DEF Start, StartFails, StoreUnchanged, StoreOp
    <2>2. "service" \in Writers
      BY ControlAssumption
    <2> QED BY <1>2, <2>1, <2>2, FilesOfTheStore, StoreTypes
  <1>9. IpcTypes'
    BY <1>1, <1>7 DEF ControlInv, Types, IpcTypes, wires
  <1>10. ClientTypes'
    BY <1>1 DEF ControlInv, Types, ClientTypes, clientVars
  <1>11. ServiceTypes'
    BY <1>1, <1>3, <1>7 DEF ControlInv, Types, ServiceTypes
  <1>12. HistoryTypes'
    BY <1>1 DEF ControlInv, Types, HistoryTypes
  <1>13. CountedPart'
    BY <1>1, <1>2, <1>7, <1>8 DEF ControlInv, Types, CountedPart
  <1> QED BY <1>8, <1>9, <1>10, <1>11, <1>12, <1>13 DEF Types

(* A step of the service outside its handlers and saves.                     *)
LEMMA EffectsKeepTypes ==
    ASSUME ControlInv, Opened \/ EffectBegins \/ EffectEnds \/ ServiceEvent
    PROVE  Types'
  <1>1. /\ UNCHANGED <<clientVars, requests, task, serving, wires, shutdown, epoch, setting, token,
                       legacy, runs, storeVars>>
        /\ inHand' \in {inHand, {}} /\ stored' \in {stored, FALSE} /\ promised' \in {promised, setting}
        /\ service' \in {service, "idle", "effect"} /\ revision' \in {revision, revision + 1}
    BY DEF Opened, EffectBegins, EffectEnds, ServiceEvent, ClientsUnchanged, StoreUnchanged,
           ServiceRest, IpcRest, history
  <1>2. Handled' = Handled /\ Handled \in Nat
    BY <1>1, HandledFacts
  <1>3. epoch \in Nat /\ setting \in Nat /\ revision \in Nat /\ published \in Snapshots
        /\ setting <= Handled /\ promised \in Nat /\ promised <= Handled /\ stored \in BOOLEAN
    BY DEF ControlInv, Types, ServiceTypes, IpcTypes, CountedPart, HistoryTypes
  <1>4. revision' \in Nat /\ promised' \in Nat /\ promised' <= Handled /\ stored' \in BOOLEAN
    <2>1. revision' \in Nat
      BY <1>1, <1>3
    <2>2. promised' \in Nat /\ promised' <= Handled
      BY <1>1, <1>3
    <2>3. stored' \in BOOLEAN
      BY <1>1, <1>3, Zenon
    <2> QED BY <2>1, <2>2, <2>3
  <1>5. published' = published \/ published' = SnapshotOf(revision', setting)
        \/ published' = SnapshotOf(revision, setting)
    BY DEF Opened, EffectBegins, EffectEnds, ServiceEvent, Publish, Unpublished
  <1>6. published' \in Snapshots
    BY <1>3, <1>4, <1>5, SnapshotTypes DEF SnapshotOf
  <1>7. engine' \in {"none", "opening", "saving", "running"}
    <2>1. engine \in {"none", "opening", "saving", "running"}
      BY DEF ControlInv, Types, ServiceTypes
    <2> QED BY <2>1 DEF Opened, EffectBegins, EffectEnds, ServiceEvent
  <1>8. replies' \in [Clients -> Answers \cup {NoReply}]
    <2>1. replies \in [Clients -> Answers \cup {NoReply}] /\ Ok(setting) \in Answers
      BY <1>3 DEF ControlInv, Types, IpcTypes, Ok, Answers
    <2>2. replies' = replies \/ \E q \in inHand : Answer(q.client, Ok(setting))
      BY DEF Opened, EffectBegins, EffectEnds, ServiceEvent
    <2>3. \A q \in inHand : q.client \in Clients
      BY DEF ControlInv, Types, ServiceTypes, Request
    <2> QED BY <2>1, <2>2, <2>3 DEF Answer
  <1>9. StoreTypeOK' /\ Bounded(Handled)'
    <2>1. StoreOp("service", Default)
      BY <1>1 DEF StoreOp
    <2>2. "service" \in Writers
      BY ControlAssumption
    <2> QED BY <1>2, <2>1, <2>2, FilesOfTheStore, StoreTypes
  <1>10. IpcTypes'
    BY <1>1, <1>6, <1>8 DEF ControlInv, Types, IpcTypes, wires
  <1>11. ClientTypes'
    BY <1>1 DEF ControlInv, Types, ClientTypes, clientVars
  <1>12. ServiceTypes'
    BY <1>1, <1>4, <1>7 DEF ControlInv, Types, ServiceTypes
  <1>13. HistoryTypes'
    BY <1>1, <1>4 DEF ControlInv, Types, HistoryTypes
  <1>14. CountedPart'
    BY <1>1, <1>2, <1>3, <1>4, <1>9 DEF ControlInv, Types, CountedPart
  <1> QED BY <1>9, <1>10, <1>11, <1>12, <1>13, <1>14 DEF Types

LEMMA HandlersKeepTypes ==
    ASSUME ControlInv, HandleQuery \/ HandleChange \/ HandleChoose
    PROVE  Types'
  <1>1. Take
    BY DEF HandleQuery, HandleChange, HandleChoose
  <1>2. /\ Head(requests) \in Request /\ requests' \in Seq(Request) /\ Len(requests') <= RequestCapacity
        /\ runs' \in [Requests -> 0..1]
    BY <1>1, RequestIsTaken
  <1>3. /\ UNCHANGED <<clientVars, task, serving, wires, shutdown, epoch, token, legacy>>
        /\ published' = published
    BY DEF HandleQuery, HandleChange, HandleChoose, Take, ClientsUnchanged, Unpublished
  <1>4. /\ Handled \in Nat /\ Handled' = Handled + 1 /\ Handled' <= MaxSetting
        /\ Handled' \in Nat /\ Handled <= Handled'
    <2>1. Handled \in Nat /\ Handled' = Handled + 1 /\ Handled' <= MaxSetting
      BY <1>1, HandledFacts
    <2> QED BY <2>1
  <1>5. StoreTypeOK /\ Bounded(Handled) /\ legacy \in AppConfig /\ legacy.setting = 0
        /\ setting \in Nat /\ setting <= Handled /\ token \in 0..MaxToken /\ revision \in Nat
        /\ promised \in Nat /\ promised <= Handled /\ stored \in BOOLEAN /\ inHand \subseteq Request
        /\ replies \in [Clients -> Answers \cup {NoReply}] /\ MaxToken \in Nat
        /\ service \in {"down", "opening", "idle", "saving", "saved", "effect", "stopped"}
        /\ engine \in {"none", "opening", "saving", "running"}
    BY StoreAssumption DEF ControlInv, Types, ServiceTypes, IpcTypes, CountedPart, HistoryTypes
  <1>6. /\ setting' \in {setting, setting + 1} /\ revision' \in {revision, revision + 1}
        /\ inHand' \in {inHand, {Head(requests)}} /\ engine' = engine /\ promised' = promised
        /\ stored' \in {stored, FALSE} /\ service' \in {service, "saving", "saved"}
    BY DEF HandleQuery, HandleChange, HandleChoose, SaveBegins
  <1>7. setting' \in Nat /\ setting' <= Handled' /\ setting' \in 0..MaxSetting /\ revision' \in Nat
        /\ promised' <= Handled'
    <2>1. MaxSetting \in Nat
      BY StoreAssumption
    <2> QED BY <1>4, <1>5, <1>6, <2>1
  <1>8. replies' \in [Clients -> Answers \cup {NoReply}]
    <2>1. Ok(setting) \in Answers /\ Refused \in Answers
      BY <1>5 DEF Ok, Refused, Answers
    <2>2. replies' = replies \/ Answer(Head(requests).client, Ok(setting))
          \/ Answer(Head(requests).client, Refused)
      BY DEF HandleQuery, HandleChange, HandleChoose
    <2>3. Head(requests).client \in Clients
      BY <1>2 DEF Request
    <2> QED BY <1>5, <2>1, <2>2, <2>3 DEF Answer
  <1>9. StoreTypeOK' /\ Bounded(Handled)'
    <2>1. "service" \in Writers
      BY ControlAssumption
    <2>2. \A config : SaveBegins(config) => StoreOp("service", config)
      BY DEF SaveBegins, StoreOp, StoreUnchanged
    <2>3. CASE HandleQuery
      <3>1. StoreOp("service", Default)
        BY <2>3 DEF HandleQuery, StoreOp, StoreUnchanged
      <3> QED BY <1>4, <2>1, <3>1, FilesOfTheStore, StoreTypes
    <2>4. CASE HandleChange
      <3> DEFINE config == [setting |-> setting', token |-> token]
      <3>1. config \in AppConfig /\ config.setting = setting'
        BY <1>5, <1>7 DEF AppConfig
      <3>2. StoreOp("service", config)
        BY <2>2, <2>4 DEF HandleChange
      <3> HIDE DEF config
      <3> QED BY <1>4, <1>7, <2>1, <3>1, <3>2, StoreTypes
    <2>5. CASE HandleChoose
      <3> DEFINE config == [Loaded(legacy) EXCEPT !.token = 0]
      <3>1. Loaded(legacy) \in AppConfig /\ Loaded(legacy).setting <= Handled
        BY <1>4, <1>5, LoadedIsConfig
      <3>2. config \in AppConfig /\ config.setting = Loaded(legacy).setting
            /\ config.setting \in Nat
        BY <1>5, <3>1 DEF AppConfig
      <3>3. StoreOp("service", config)
        BY <2>2, <2>5 DEF HandleChoose, StoreOp, StoreUnchanged
      <3> HIDE DEF config
      <3>4. config.setting <= Handled'
        BY <1>4, <3>1, <3>2
      <3> QED BY <1>4, <2>1, <3>2, <3>3, <3>4, StoreTypes
    <2> QED BY <2>3, <2>4, <2>5
  <1>10. IpcTypes'
    BY <1>2, <1>3, <1>8 DEF ControlInv, Types, IpcTypes, wires
  <1>11. ClientTypes'
    BY <1>3 DEF ControlInv, Types, ClientTypes, clientVars
  <1>12. ServiceTypes'
    BY <1>2, <1>3, <1>5, <1>6, <1>7 DEF ControlInv, Types, ServiceTypes
  <1>13. HistoryTypes'
    BY <1>2, <1>5, <1>6 DEF HistoryTypes
  <1>14. CountedPart'
    BY <1>7, <1>9 DEF CountedPart
  <1> QED BY <1>9, <1>10, <1>11, <1>12, <1>13, <1>14 DEF Types

LEMMA EndsKeepTypes ==
    ASSUME ControlInv, Stops \/ Crashes \/ PowerFails
    PROVE  Types'
  <1>1. /\ requests' = <<>> /\ replies' = [c \in Clients |-> NoReply]
        /\ task' = [c \in Clients |-> "none"] /\ serving' = [c \in Clients |-> {}]
        /\ toServer' = [c \in Clients |-> <<>>] /\ published' = NoSnapshot
        /\ setting' = 0 /\ token' = 0 /\ revision' = 0 /\ inHand' = {}
        /\ engine' = "none" /\ stored' = FALSE /\ UNCHANGED <<legacy, epoch>>
        /\ runs' = runs /\ promised' = promised
    BY DEF Stops, Crashes, PowerFails, Gone, ProcessEnds
  <1>2. /\ service' \in {"stopped", "down"} /\ shutdown' \in {shutdown, FALSE}
        /\ toClient' = toClient \/ toClient' = [c \in Clients |-> <<>>]
    BY DEF Stops, Crashes, PowerFails
  <1>3. Handled' = Handled /\ Handled \in Nat
    BY <1>1, HandledFacts
  <1>4. StoreTypeOK' /\ Bounded(Handled)'
    <2>1. StoreOp("service", Default)
      BY DEF Stops, Crashes, PowerFails, StoreUnchanged, StoreOp
    <2>2. "service" \in Writers
      BY ControlAssumption
    <2> QED BY <1>3, <2>1, <2>2, FilesOfTheStore, StoreTypes
  <1>5. IpcTypes'
    <2>1. NoSnapshot \in Snapshots
      BY DEF NoSnapshot, Snapshots
    <2>2. <<>> \in Seq(Request) /\ Len(<<>>) = 0 /\ <<>> \in Seq(Messages)
      BY NoRequests, EmptySeq
    <2>3. Len(requests') <= RequestCapacity
      BY <1>1, <2>2, IpcAssumption
    <2>4. toClient' \in [Clients -> Seq(Messages)]
      BY <1>2, <2>2 DEF ControlInv, Types, IpcTypes
    <2> QED BY <1>1, <2>1, <2>2, <2>3, <2>4 DEF IpcTypes
  <1>6. ClientTypes'
    <2>1. CASE Stops \/ Crashes
      BY <2>1 DEF Stops, Crashes, ClientsUnchanged, clientVars, ControlInv, Types, ClientTypes
    <2>2. CASE PowerFails
      <3>1. /\ link' = [c \in Clients |-> "gone"] /\ outbound' = [c \in Clients |-> <<>>]
            /\ seen' = [c \in Clients |-> {}]
            /\ outcome' = [r \in Requests |->
                  IF r \in {s \in Requests : outcome[s] = "waiting"} THEN "lost" ELSE outcome[r]]
        BY <2>2 DEF PowerFails, Resolve
      <3>2. outcome \in [Requests -> {"unsent", "waiting", "ok", "error", "lost"}]
        BY DEF ControlInv, Types, ClientTypes
      <3> QED BY <3>1, <3>2, NoRequests DEF ClientTypes
    <2> QED BY <2>1, <2>2
  <1>7. ServiceTypes'
    <2>1. 0 \in 0..MaxToken
      BY StoreAssumption
    <2> QED BY <1>1, <1>2, <2>1 DEF ControlInv, Types, ServiceTypes
  <1>8. HistoryTypes'
    BY <1>1 DEF ControlInv, Types, HistoryTypes
  <1>9. CountedPart'
    BY <1>1, <1>3, <1>4 DEF ControlInv, Types, CountedPart
  <1> QED BY <1>4, <1>5, <1>6, <1>7, <1>8, <1>9 DEF Types

(* The steps of the connections and of the clients.                          *)
LEMMA ConnectionsRest ==
    ASSUME ControlInv, NEW c \in Clients, TaskStep(c) \/ LinkStep(c) \/ UserStep(c)
    PROVE  UNCHANGED <<service, shutdown, epoch, setting, token, revision, inHand, engine, legacy,
                       storeVars, runs, stored, promised, published>>
  <1>1. StillService
    BY DEF TaskStep, LinkStep, UserStep
  <1>2. published' = published
    BY DEF TaskStep, LinkStep, UserStep, Ready, Event, ReadRequest, Respond, TaskEnds, End, ClientStep,
           Connect, Transmit, Receive, Disconnected, Exit, Issue, ipcVars
  <1> QED BY <1>1, <1>2 DEF StillService, history

LEMMA ConnectionsKeepTypes ==
    ASSUME ControlInv, NEW c \in Clients, TaskStep(c) \/ LinkStep(c) \/ UserStep(c), IpcTypes', ClientTypes'
    PROVE  Types'
  <1>1. UNCHANGED <<service, shutdown, epoch, setting, token, revision, inHand, engine, legacy,
                    storeVars, runs, stored, promised, published>>
    BY ConnectionsRest
  <1>2. Handled' = Handled /\ Handled \in Nat
    BY <1>1, HandledFacts
  <1>3. StoreTypeOK' /\ Bounded(Handled)'
    <2>1. StoreOp("service", Default)
      BY <1>1 DEF StoreOp
    <2>2. "service" \in Writers
      BY ControlAssumption
    <2> QED BY <1>2, <2>1, <2>2, FilesOfTheStore, StoreTypes
  <1>4. ServiceTypes'
    BY <1>1 DEF ControlInv, Types, ServiceTypes
  <1>5. HistoryTypes'
    BY <1>1 DEF ControlInv, Types, HistoryTypes
  <1>6. CountedPart'
    BY <1>1, <1>2, <1>3 DEF ControlInv, Types, CountedPart
  <1> QED BY <1>3, <1>4, <1>5, <1>6 DEF Types

LEMMA TaskStepKeepsTypes ==
    ASSUME ControlInv, NEW c \in Clients, TaskStep(c)
    PROVE  Types'
  <1>1. /\ published \in Snapshots
        /\ requests \in Seq(Request) /\ Len(requests) <= RequestCapacity
        /\ replies \in [Clients -> Answers \cup {NoReply}]
        /\ task \in [Clients -> {"none", "accepted", "loop", "waiting"}]
        /\ serving \in [Clients -> SUBSET Requests]
        /\ toServer \in [Clients -> Seq(Request)] /\ toClient \in [Clients -> Seq(Messages)]
    BY DEF ControlInv, Types, IpcTypes
  <1>2. published' = published
    BY ConnectionsRest
  <1>3. ClientTypes'
    BY DEF ControlInv, Types, ClientTypes, TaskStep, clientVars
  <1>4. ASSUME NEW e \in Messages, Say(c, e) PROVE toClient' \in [Clients -> Seq(Messages)]
    <2>1. Append(toClient[c], e) \in Seq(Messages)
      BY <1>1, QueueFacts
    <2> QED BY <1>1, <1>4, <2>1 DEF Say
  <1>5. Snapshot(published) \in Messages
    BY <1>1 DEF Snapshot, Messages, SnapshotMessages
  <1>6. CASE Ready(c, Open(c)) \/ Event(c, Open(c), shutdown)
    <2>1. /\ requests' = requests /\ replies' = replies /\ serving' = serving /\ toServer' = toServer
          /\ Say(c, Snapshot(published)) /\ task' \in {task, [task EXCEPT ![c] = "loop"]}
      BY <1>6 DEF Ready, Event
    <2>2. toClient' \in [Clients -> Seq(Messages)]
      BY <1>4, <1>5, <2>1
    <2>3. IpcTypes'
      BY <1>1, <1>2, <2>1, <2>2 DEF IpcTypes
    <2> QED BY <1>3, <2>3, ConnectionsKeepTypes
  <1>7. CASE ReadRequest(c, shutdown)
    <2> DEFINE h == Head(toServer[c])
               e == [h EXCEPT !.client = c]
    <2>1. /\ toServer[c] # <<>> /\ Len(requests) < RequestCapacity
          /\ requests' = Append(requests, e)
          /\ serving' = [serving EXCEPT ![c] = {h.id}]
          /\ toServer' = [toServer EXCEPT ![c] = Tail(@)]
          /\ task' = [task EXCEPT ![c] = "waiting"] /\ replies' = replies /\ toClient' = toClient
      BY <1>7 DEF ReadRequest
    <2>2. h \in Request /\ Tail(toServer[c]) \in Seq(Request)
      BY <1>1, <2>1, RequestTaken
    <2>3. e \in Request /\ h.id \in Requests
      BY <2>2 DEF Request
    <2> HIDE DEF h, e
    <2>4. requests' \in Seq(Request) /\ Len(requests') = Len(requests) + 1 /\ Len(requests) \in Nat
      BY <1>1, <2>1, <2>3, RequestPut, QueueFacts
    <2>5. Len(requests') <= RequestCapacity
      BY <2>1, <2>4, IpcAssumption
    <2>6. /\ serving' \in [Clients -> SUBSET Requests] /\ toServer' \in [Clients -> Seq(Request)]
          /\ task' \in [Clients -> {"none", "accepted", "loop", "waiting"}]
      BY <1>1, <2>1, <2>2, <2>3
    <2>7. IpcTypes'
      BY <1>1, <1>2, <2>1, <2>4, <2>5, <2>6 DEF IpcTypes
    <2> QED BY <1>3, <2>7, ConnectionsKeepTypes
  <1>8. CASE Respond(c, Open(c))
    <2>1. /\ requests' = requests /\ toServer' = toServer /\ replies[c] # NoReply
          /\ task' = [task EXCEPT ![c] = "loop"] /\ serving' = [serving EXCEPT ![c] = {}]
          /\ replies' = [replies EXCEPT ![c] = NoReply]
      BY <1>8 DEF Respond
    <2>2. PICK r \in serving[c] : Say(c, Response(r, replies[c]))
      BY <1>8 DEF Respond
    <2>3. Response(r, replies[c]) \in Messages
      BY <1>1, <2>1 DEF Response, Messages, ResponseMessages
    <2>4. toClient' \in [Clients -> Seq(Messages)]
      BY <1>4, <2>2, <2>3
    <2>5. IpcTypes'
      BY <1>1, <1>2, <2>1, <2>4 DEF IpcTypes
    <2> QED BY <1>3, <2>5, ConnectionsKeepTypes
  <1>9. CASE TaskEnds(c, Open(c), shutdown)
    <2>1. /\ requests' = requests /\ toClient' = toClient
          /\ toServer' = [toServer EXCEPT ![c] = <<>>]
          /\ task' = [task EXCEPT ![c] = "none"] /\ serving' = [serving EXCEPT ![c] = {}]
          /\ replies' = [replies EXCEPT ![c] = NoReply]
      BY <1>9 DEF TaskEnds, End
    <2>2. IpcTypes'
      BY <1>1, <1>2, <2>1, NoRequests DEF IpcTypes
    <2> QED BY <1>3, <2>2, ConnectionsKeepTypes
  <1> QED BY <1>6, <1>7, <1>8, <1>9 DEF TaskStep

LEMMA ClientStepsKeepTypes ==
    ASSUME ControlInv, NEW c \in Clients, LinkStep(c) \/ UserStep(c)
    PROVE  Types'
  <1>1. /\ published \in Snapshots
        /\ requests \in Seq(Request) /\ Len(requests) <= RequestCapacity
        /\ replies \in [Clients -> Answers \cup {NoReply}]
        /\ task \in [Clients -> {"none", "accepted", "loop", "waiting"}]
        /\ serving \in [Clients -> SUBSET Requests]
        /\ toServer \in [Clients -> Seq(Request)] /\ toClient \in [Clients -> Seq(Messages)]
        /\ link \in [Clients -> {"connecting", "connected", "gone"}]
        /\ outbound \in [Clients -> Seq(Request)]
        /\ seen \in [Clients -> SUBSET Snapshots]
        /\ outcome \in [Requests -> {"unsent", "waiting", "ok", "error", "lost"}]
    BY DEF ControlInv, Types, IpcTypes, ClientTypes
  <1>2. published' = published
    BY ConnectionsRest
  <1>3. /\ requests' = requests /\ replies' = replies /\ serving' = serving
        /\ task' \in {task, [task EXCEPT ![c] = "accepted"]}
    BY DEF LinkStep, UserStep, ClientStep, Connect, Transmit, Receive, Disconnected, Exit, Issue, ipcVars
  <1>4. /\ link' \in [Clients -> {"connecting", "connected", "gone"}]
        /\ task' \in [Clients -> {"none", "accepted", "loop", "waiting"}]
    <2>1. link' \in {link, [link EXCEPT ![c] = "connecting"], [link EXCEPT ![c] = "connected"],
                     [link EXCEPT ![c] = "gone"]}
      BY DEF LinkStep, UserStep, ClientStep, Connect, Transmit, Receive, Disconnected, Exit, Issue,
             DropConnection
    <2> QED BY <1>1, <1>3, <2>1
  <1>5. outbound' \in [Clients -> Seq(Request)]
    <2>1. CASE Transmit(c)
      <3>1. outbound[c] # <<>> /\ outbound' = [outbound EXCEPT ![c] = Tail(@)]
        BY <2>1 DEF Transmit
      <3> QED BY <1>1, <3>1, RequestTaken
    <2>2. ASSUME NEW r \in Requests, NEW kind \in Kinds, Issue(c, r, kind)
          PROVE  outbound' \in [Clients -> Seq(Request)]
      <3>1. outbound' = [outbound EXCEPT ![c] = Append(@, [id |-> r, kind |-> kind, client |-> c])]
        BY <2>2 DEF Issue
      <3>2. [id |-> r, kind |-> kind, client |-> c] \in Request
        BY DEF Request
      <3> QED BY <1>1, <3>1, <3>2, RequestPut
    <2>3. CASE Connect(c, Listening) \/ Receive(c) \/ Disconnected(c) \/ Exit(c)
      <3>1. outbound' = outbound \/ outbound' = [outbound EXCEPT ![c] = <<>>]
        BY <2>3 DEF Connect, Receive, Disconnected, Exit
      <3> QED BY <1>1, <3>1, NoRequests
    <2> QED BY <2>1, <2>2, <2>3 DEF LinkStep, UserStep, ClientStep
  <1>6. toServer' \in [Clients -> Seq(Request)]
    <2>1. CASE Transmit(c)
      <3>1. /\ outbound[c] # <<>>
            /\ toServer' = toServer \/ toServer' = [toServer EXCEPT ![c] = Append(@, Head(outbound[c]))]
        BY <2>1 DEF Transmit
      <3>2. Head(outbound[c]) \in Request
        BY <1>1, <3>1, RequestTaken
      <3>3. Append(toServer[c], Head(outbound[c])) \in Seq(Request)
        BY <1>1, <3>2, RequestPut
      <3> QED BY <1>1, <3>1, <3>3
    <2>2. CASE ~Transmit(c)
      <3>1. toServer' = toServer
        BY <2>2 DEF LinkStep, UserStep, ClientStep, Connect, Receive, Disconnected, Exit, Issue, ipcVars, wires
      <3> QED BY <1>1, <3>1
    <2> QED BY <2>1, <2>2
  <1>7. toClient' \in [Clients -> Seq(Messages)] /\ seen' \in [Clients -> SUBSET Snapshots]
        /\ outcome' \in [Requests -> {"unsent", "waiting", "ok", "error", "lost"}]
    <2>1. ASSUME NEW ids, NEW value \in {"unsent", "waiting", "ok", "error", "lost"}, Resolve(ids, value)
          PROVE  outcome' \in [Requests -> {"unsent", "waiting", "ok", "error", "lost"}]
      BY <1>1, <2>1 DEF Resolve
    <2>2. CASE Receive(c)
      <3>1. /\ toClient[c] # <<>> /\ toClient' = [toClient EXCEPT ![c] = Tail(@)]
            /\ \/ /\ Head(toClient[c]).is = "snapshot" /\ outcome' = outcome
                  /\ seen' = [seen EXCEPT ![c] = {Head(toClient[c]).snapshot}]
               \/ /\ Head(toClient[c]).is # "snapshot" /\ seen' = seen
                  /\ Resolve({Head(toClient[c]).id} \cap pending[c], Head(toClient[c]).reply.outcome)
        BY <2>2 DEF Receive
      <3>2. Head(toClient[c]) \in Messages /\ Tail(toClient[c]) \in Seq(Messages)
        BY <1>1, <3>1, QueueFacts
      <3>3. CASE Head(toClient[c]).is = "snapshot"
        <4>1. Head(toClient[c]).snapshot \in Snapshots
          BY <3>2, <3>3 DEF Messages, SnapshotMessages, ResponseMessages
        <4>2. outcome' = outcome /\ seen' = [seen EXCEPT ![c] = {Head(toClient[c]).snapshot}]
          BY <3>1, <3>3
        <4>3. seen' \in [Clients -> SUBSET Snapshots]
          <5>1. {Head(toClient[c]).snapshot} \in SUBSET Snapshots
            BY <4>1
          <5> QED BY <1>1, <4>2, <5>1
        <4>4. toClient' \in [Clients -> Seq(Messages)]
          BY <1>1, <3>1, <3>2
        <4> QED BY <1>1, <4>2, <4>3, <4>4
      <3>4. CASE Head(toClient[c]).is # "snapshot"
        <4>1. Head(toClient[c]).reply.outcome \in {"unsent", "waiting", "ok", "error", "lost"}
          BY <3>2, <3>4 DEF Messages, SnapshotMessages, ResponseMessages, Answers
        <4>2. outcome' \in [Requests -> {"unsent", "waiting", "ok", "error", "lost"}]
          BY <2>1, <3>1, <3>4, <4>1
        <4> QED BY <1>1, <3>1, <3>2, <3>4, <4>2
      <3> QED BY <3>3, <3>4
    <2>3. CASE ~Receive(c)
      <3>1. /\ toClient' = toClient \/ toClient' = [toClient EXCEPT ![c] = <<>>]
            /\ seen' = seen \/ seen' = [seen EXCEPT ![c] = {}]
        BY <2>3 DEF LinkStep, UserStep, ClientStep, Connect, Transmit, Disconnected, Exit, Issue, ipcVars,
                    wires, DropConnection
      <3>2. \/ outcome' = outcome \/ \E ids : Resolve(ids, "lost") \/ Resolve(ids, "waiting")
        BY <2>3 DEF LinkStep, UserStep, ClientStep, Connect, Transmit, Disconnected, Exit, Issue
      <3>3. outcome' \in [Requests -> {"unsent", "waiting", "ok", "error", "lost"}]
        BY <1>1, <2>1, <3>2
      <3>4. <<>> \in Seq(Messages)
        BY EmptySeq
      <3> QED BY <1>1, <3>1, <3>3, <3>4
    <2> QED BY <2>2, <2>3
  <1>8. IpcTypes'
    BY <1>1, <1>2, <1>3, <1>4, <1>6, <1>7 DEF IpcTypes
  <1>9. ClientTypes'
    BY <1>4, <1>5, <1>7 DEF ClientTypes
  <1> QED BY <1>8, <1>9, ConnectionsKeepTypes

-----------------------------------------------------------------------------
(* Snapshots.  What was sent stays behind what is published.                 *)
LEMMA PublishingGoesForward ==
    ASSUME ControlInv, epoch' \in Nat, epoch <= epoch', published' \in Snapshots,
           Running' => \/ Running /\ Before(published, published')
                       \/ epoch < epoch' /\ published'.epoch = epoch'
    PROVE  \A s \in Snapshots : Past(s) =>
              s.epoch <= epoch' /\ (Running' => Before(s, published'))
  <1>1. epoch \in Nat /\ published \in Snapshots
    BY DEF ControlInv, Types, ServiceTypes, IpcTypes
  <1> SUFFICES ASSUME NEW s \in Snapshots, Past(s)
               PROVE  s.epoch <= epoch' /\ (Running' => Before(s, published'))
    OBVIOUS
  <1>2. s.epoch \in Nat /\ s.epoch <= epoch
    BY DEF Past, Snapshots
  <1>3. s.epoch <= epoch'
    BY <1>1, <1>2
  <1>4. ASSUME Running' PROVE Before(s, published')
    <2>1. CASE Running /\ Before(published, published')
      BY <1>1, <2>1, BeforeOrders DEF Past
    <2>2. CASE epoch < epoch' /\ published'.epoch = epoch'
      BY <1>1, <1>2, <2>2 DEF Before
    <2> QED BY <1>4, <2>1, <2>2
  <1> QED BY <1>3, <1>4

LEMMA SentIsPast ==
    ASSUME ControlInv, NEW d \in Clients
    PROVE  /\ seen[d] \in SUBSET Snapshots /\ toClient[d] \in Seq(Messages)
           /\ \A s \in seen[d] : Past(s)
           /\ \A k \in DOMAIN toClient[d] :
                 toClient[d][k] \in Messages
                 /\ (toClient[d][k].is = "snapshot" =>
                        toClient[d][k].snapshot \in Snapshots /\ Past(toClient[d][k].snapshot))
           /\ InOrder(seen[d], toClient[d])
  <1>1. seen[d] \in SUBSET Snapshots /\ toClient[d] \in Seq(Messages)
    BY DEF ControlInv, Types, IpcTypes, ClientTypes
  <1>2. \A k \in DOMAIN toClient[d] : toClient[d][k] \in Messages
    BY <1>1, QueueFacts
  <1>3. \A m \in Messages : m.is = "snapshot" => m.snapshot \in Snapshots
    BY DEF Messages, SnapshotMessages, ResponseMessages
  <1> QED BY <1>1, <1>2, <1>3 DEF ControlInv, OnTheWayPart

(* A step that sends and takes nothing.                                      *)
LEMMA NothingSent ==
    ASSUME ControlInv, UNCHANGED <<seen, toClient>>,
           epoch' \in Nat, epoch <= epoch', published' \in Snapshots,
           Running' => \/ Running /\ Before(published, published')
                       \/ epoch < epoch' /\ published'.epoch = epoch'
    PROVE  OnTheWayPart'
  <1>1. \A s \in Snapshots : Past(s) => s.epoch <= epoch' /\ (Running' => Before(s, published'))
    BY PublishingGoesForward
  <1>2. ASSUME NEW d \in Clients
        PROVE  /\ \A s \in seen[d] : s.epoch <= epoch' /\ (Running' => Before(s, published'))
               /\ \A k \in DOMAIN toClient[d] : toClient[d][k].is = "snapshot" =>
                     /\ toClient[d][k].snapshot.epoch <= epoch'
                     /\ Running' => Before(toClient[d][k].snapshot, published')
               /\ InOrder(seen[d], toClient[d])
    BY <1>1, SentIsPast
  <1> QED BY <1>2 DEF OnTheWayPart, Past

(* A step of a connection: what is sent was published last, and what is      *)
(* taken is shown.                                                           *)
LEMMA SendingGoesForward ==
    ASSUME ControlInv, NEW c \in Clients, UNCHANGED <<epoch, published, service>>,
           \A d \in Clients : d # c => seen'[d] = seen[d] /\ toClient'[d] = toClient[d],
           \A s \in seen'[c] : Past(s),
           \A k \in DOMAIN toClient'[c] : toClient'[c][k].is = "snapshot" => Past(toClient'[c][k].snapshot),
           InOrder(seen'[c], toClient'[c])
    PROVE  OnTheWayPart'
  <1>1. Running' = Running
    BY DEF Running
  <1>2. ASSUME NEW d \in Clients
        PROVE  /\ \A s \in seen'[d] : s.epoch <= epoch /\ (Running => Before(s, published))
               /\ \A k \in DOMAIN toClient'[d] : toClient'[d][k].is = "snapshot" =>
                     /\ toClient'[d][k].snapshot.epoch <= epoch
                     /\ Running => Before(toClient'[d][k].snapshot, published)
               /\ InOrder(seen'[d], toClient'[d])
    <2>1. CASE d = c
      BY <2>1 DEF Past
    <2>2. CASE d # c
      <3>1. seen'[d] = seen[d] /\ toClient'[d] = toClient[d]
        BY <2>2
      <3> QED BY <3>1, SentIsPast DEF Past
    <2> QED BY <2>1, <2>2
  <1> QED BY <1>1, <1>2 DEF OnTheWayPart, Past

LEMMA ServiceKeepsSnapshots ==
    ASSUME ControlInv, Types',
           \/ Start \/ StartFails \/ HandleQuery \/ HandleChange \/ HandleChoose \/ Saves
           \/ Opened \/ EffectBegins \/ EffectEnds \/ ServiceEvent
    PROVE  PublishedPart' /\ OnTheWayPart'
  <1>1. /\ epoch \in Nat /\ revision \in Nat /\ published \in Snapshots
        /\ epoch' \in Nat /\ revision' \in Nat /\ published' \in Snapshots
        /\ published.revision \in Nat /\ published.epoch \in Nat
    BY DEF ControlInv, Types, ServiceTypes, IpcTypes, Snapshots
  <1>2. /\ Running => published.epoch = epoch /\ published.revision <= revision
        /\ \A c \in Clients : task[c] # "none" => Running
    BY DEF ControlInv, PublishedPart
  <1>3. UNCHANGED <<seen, toClient, task>>
    <2>1. CASE \/ Start \/ StartFails \/ HandleQuery \/ HandleChange \/ HandleChoose
               \/ Opened \/ EffectBegins \/ EffectEnds \/ ServiceEvent
      BY <2>1 DEF Start, StartFails, HandleQuery, HandleChange, HandleChoose, Take, Opened, EffectBegins,
                  EffectEnds, ServiceEvent, ClientsUnchanged, clientVars, IpcRest, wires, ipcVars
    <2>2. CASE Saves
      BY <2>2, SavesRest DEF ipcVars, clientVars, wires
    <2> QED BY <2>1, <2>2
  <1>4. CASE Start
    <2>1. /\ ~Running /\ epoch' = epoch + 1 /\ revision' = 0 /\ service' = "opening"
          /\ published'.epoch = epoch + 1 /\ published'.revision = 0
      BY <1>4 DEF Start, Running
    <2>2. OnTheWayPart'
      <3>1. epoch <= epoch' /\ epoch < epoch' /\ published'.epoch = epoch'
        BY <1>1, <2>1
      <3> QED BY <1>1, <1>3, <3>1, NothingSent
    <2>3. PublishedPart'
      BY <1>2, <1>3, <2>1 DEF PublishedPart
    <2> QED BY <2>2, <2>3
  <1>5. CASE StartFails
    <2>1. ~Running /\ ~Running' /\ epoch' = epoch + 1
      BY <1>5 DEF StartFails, Running
    <2>2. OnTheWayPart'
      <3>1. epoch <= epoch'
        BY <1>1, <2>1
      <3> QED BY <1>1, <1>3, <2>1, <3>1, NothingSent
    <2>3. PublishedPart'
      BY <1>2, <1>3, <2>1 DEF PublishedPart
    <2> QED BY <2>2, <2>3
  <1>6. ASSUME epoch' = epoch, Running' = Running, revision <= revision',
               \/ published' = published
               \/ /\ published'.epoch = epoch /\ published'.revision \in {revision, revision'}
        PROVE  PublishedPart' /\ OnTheWayPart'
    <2>1. published'.revision \in Nat
      BY <1>1 DEF Snapshots
    <2>2. Running => published'.epoch = epoch /\ published'.revision <= revision'
      BY <1>1, <1>2, <1>6, <2>1
    <2>3. Running => Before(published, published')
      BY <1>1, <1>2, <1>6, <2>1 DEF Before
    <2>4. OnTheWayPart'
      <3>1. epoch <= epoch'
        BY <1>1, <1>6
      <3> QED BY <1>1, <1>3, <1>6, <2>3, <3>1, NothingSent
    <2>5. PublishedPart'
      BY <1>2, <1>3, <1>6, <2>2 DEF PublishedPart
    <2> QED BY <2>4, <2>5
  <1>7. CASE Saves
    <2>1. epoch' = epoch /\ Running' = Running /\ revision' = revision /\ published' = published
      BY <1>7, SavesRest DEF ipcVars
    <2>2. revision <= revision'
      BY <1>1, <2>1
    <2> QED BY <1>6, <2>1, <2>2
  <1>8. CASE HandleQuery \/ HandleChange \/ HandleChoose
    <2>1. /\ epoch' = epoch /\ published' = published /\ revision' \in {revision, revision + 1}
          /\ service = "idle" /\ service' \in {"idle", "saving", "saved"}
      BY <1>8 DEF HandleQuery, HandleChange, HandleChoose, Take, Unpublished, SaveBegins
    <2>2. Running' = Running
      BY <2>1 DEF Running
    <2>3. revision <= revision'
      BY <1>1, <2>1
    <2> QED BY <1>6, <2>1, <2>2, <2>3
  <1>9. CASE Opened \/ EffectBegins \/ EffectEnds \/ ServiceEvent
    <2>1. /\ epoch' = epoch /\ revision' \in {revision, revision + 1}
          /\ service \in {"opening", "saved", "effect", "idle"} /\ service' \in {"idle", "effect"}
      BY <1>9 DEF Opened, EffectBegins, EffectEnds, ServiceEvent, ServiceRest
    <2>2. Running' = Running
      BY <2>1 DEF Running
    <2>3. revision <= revision'
      BY <1>1, <2>1
    <2>4. published' = published \/ published' = SnapshotOf(revision', setting)
          \/ published' = SnapshotOf(revision, setting)
      BY <1>9 DEF Opened, EffectBegins, EffectEnds, ServiceEvent, Publish, Unpublished
    <2>5. published' = published
          \/ (published'.epoch = epoch /\ published'.revision \in {revision, revision'})
      BY <2>4 DEF SnapshotOf
    <2> QED BY <1>6, <2>1, <2>2, <2>3, <2>5
  <1> QED BY <1>4, <1>5, <1>7, <1>8, <1>9

LEMMA EndsKeepSnapshots ==
    ASSUME ControlInv, Types', Stops \/ Crashes \/ PowerFails
    PROVE  PublishedPart' /\ OnTheWayPart'
  <1>1. /\ task' = [c \in Clients |-> "none"] /\ epoch' = epoch /\ service' \in {"down", "stopped"}
    BY DEF Stops, Crashes, PowerFails, Gone, ProcessEnds
  <1>2. ~Running' /\ epoch \in Nat /\ epoch' \in Nat /\ epoch <= epoch' /\ published' \in Snapshots
    BY <1>1 DEF Running, ControlInv, Types, ServiceTypes, IpcTypes
  <1>3. PublishedPart'
    BY <1>1, <1>2 DEF PublishedPart
  <1>4. CASE Stops \/ Crashes
    <2>1. UNCHANGED <<seen, toClient>>
      BY <1>4 DEF Stops, Crashes, ClientsUnchanged, clientVars
    <2>2. OnTheWayPart'
      BY <1>2, <2>1, NothingSent
    <2> QED BY <1>3, <2>2
  <1>5. CASE PowerFails
    <2>1. seen' = [c \in Clients |-> {}] /\ toClient' = [c \in Clients |-> <<>>]
      BY <1>5 DEF PowerFails
    <2>2. \A d \in Clients : seen'[d] = {} /\ toClient'[d] = <<>>
      BY <2>1
    <2>3. InOrder({}, <<>>) /\ DOMAIN <<>> = {}
      BY NoMessages
    <2>4. OnTheWayPart'
      BY <2>2, <2>3 DEF OnTheWayPart
    <2> QED BY <1>3, <2>4
  <1> QED BY <1>4, <1>5

LEMMA ConnectionsKeepSnapshots ==
    ASSUME ControlInv, NEW c \in Clients, TaskStep(c) \/ LinkStep(c) \/ UserStep(c)
    PROVE  PublishedPart' /\ OnTheWayPart'
  <1>1. UNCHANGED <<service, shutdown, epoch, revision, published>> /\ Running' = Running
    BY ConnectionsRest DEF Running
  <1>2. /\ task \in [Clients -> {"none", "accepted", "loop", "waiting"}]
        /\ toClient \in [Clients -> Seq(Messages)] /\ seen \in [Clients -> SUBSET Snapshots]
        /\ published \in Snapshots
    BY DEF ControlInv, Types, IpcTypes, ClientTypes
  <1>3. /\ seen[c] \in SUBSET Snapshots /\ toClient[c] \in Seq(Messages)
        /\ \A s \in seen[c] : Past(s)
        /\ \A k \in DOMAIN toClient[c] : toClient[c][k] \in Messages
        /\ \A k \in DOMAIN toClient[c] : toClient[c][k].is = "snapshot" =>
              toClient[c][k].snapshot \in Snapshots /\ Past(toClient[c][k].snapshot)
        /\ InOrder(seen[c], toClient[c])
    BY SentIsPast
  <1>4. PublishedPart'
    <2>1. CASE Connect(c, Listening)
      <3>1. Running
        BY <2>1 DEF Connect, Listening
      <3> QED BY <1>1, <3>1 DEF ControlInv, PublishedPart
    <2>2. CASE ~Connect(c, Listening)
      <3>1. \A d \in Clients : task'[d] # "none" => task[d] # "none"
        <4>1. CASE TaskStep(c)
          <5>1. \/ task' = task
                \/ task[c] # "none" /\ \E at \in {"loop", "waiting"} : task' = [task EXCEPT ![c] = at]
                \/ task' = [task EXCEPT ![c] = "none"]
            BY <4>1 DEF TaskStep, Ready, Event, ReadRequest, Respond, TaskEnds, End
          <5> QED BY <1>2, <5>1
        <4>2. CASE LinkStep(c) \/ UserStep(c)
          <5>1. task' = task
            BY <2>2, <4>2 DEF LinkStep, UserStep, ClientStep, Transmit, Receive, Disconnected, Exit, Issue, ipcVars
          <5> QED BY <5>1
        <4> QED BY <4>1, <4>2
      <3> QED BY <1>1, <3>1 DEF ControlInv, PublishedPart
    <2> QED BY <2>1, <2>2
  <1>5. ASSUME NEW e \in Messages, Say(c, e), seen' = seen,
               e.is = "snapshot" => e.snapshot = published /\ Running
        PROVE  OnTheWayPart'
    <2>1. /\ toClient'[c] = Append(toClient[c], e)
          /\ \A d \in Clients : d # c => toClient'[d] = toClient[d]
      BY <1>2, <1>5 DEF Say
    <2>2. e.is = "snapshot" =>
              /\ \A s \in seen[c] : Before(s, e.snapshot)
              /\ \A k \in DOMAIN toClient[c] : toClient[c][k].is = "snapshot" =>
                    Before(toClient[c][k].snapshot, e.snapshot)
              /\ Past(e.snapshot)
      <3>1. ASSUME Running PROVE Past(published)
        <4>1. published.epoch = epoch /\ epoch \in Nat
          BY <3>1 DEF ControlInv, PublishedPart, Types, ServiceTypes
        <4> QED BY <1>2, <4>1, BeforeOrders DEF Past
      <3> QED BY <1>3, <1>5, <3>1 DEF Past
    <2>3. /\ InOrder(seen[c], Append(toClient[c], e))
          /\ \A k \in DOMAIN Append(toClient[c], e) :
                Append(toClient[c], e)[k] = e \/ \E j \in DOMAIN toClient[c] : Append(toClient[c], e)[k] = toClient[c][j]
      BY <1>3, <2>2, MessagePut
    <2>4. \A k \in DOMAIN toClient'[c] : toClient'[c][k].is = "snapshot" => Past(toClient'[c][k].snapshot)
      BY <1>3, <2>1, <2>2, <2>3
    <2> QED BY <1>1, <1>3, <1>5, <2>1, <2>3, <2>4, SendingGoesForward
  <1>6. ASSUME \/ toClient' = toClient \/ toClient' = [toClient EXCEPT ![c] = <<>>],
               \/ seen' = seen \/ (seen' = [seen EXCEPT ![c] = {}] /\ toClient' = [toClient EXCEPT ![c] = <<>>])
        PROVE  OnTheWayPart'
    <2>1. /\ \A d \in Clients : d # c => seen'[d] = seen[d] /\ toClient'[d] = toClient[d]
          /\ seen'[c] = seen[c] \/ seen'[c] = {}
          /\ toClient'[c] = <<>> \/ (toClient'[c] = toClient[c] /\ seen'[c] = seen[c])
      BY <1>2, <1>6
    <2>2. \A s, t \in seen'[c] : Before(s, t)
      BY <1>3, <2>1 DEF InOrder
    <2>3. seen'[c] \in SUBSET Snapshots
      BY <1>3, <2>1
    <2>4. DOMAIN <<>> = {} /\ InOrder(seen'[c], <<>>)
      BY <2>2, <2>3, NoMessages
    <2>5. InOrder(seen'[c], toClient'[c])
      BY <1>3, <2>1, <2>4
    <2>6. /\ \A s \in seen'[c] : Past(s)
          /\ \A k \in DOMAIN toClient'[c] : toClient'[c][k].is = "snapshot" => Past(toClient'[c][k].snapshot)
      BY <1>3, <2>1, <2>4
    <2> QED BY <1>1, <2>1, <2>5, <2>6, SendingGoesForward
  <1>7. CASE TaskStep(c)
    <2>1. seen' = seen
      BY <1>7 DEF TaskStep, clientVars
    <2>2. CASE Ready(c, Open(c)) \/ Event(c, Open(c), shutdown)
      <3>1. Say(c, Snapshot(published)) /\ task[c] # "none"
        BY <2>2 DEF Ready, Event
      <3>2. Snapshot(published) \in Messages /\ Snapshot(published).snapshot = published
        BY <1>2 DEF Snapshot, Messages, SnapshotMessages
      <3>3. Running
        BY <3>1 DEF ControlInv, PublishedPart
      <3> QED BY <1>4, <1>5, <2>1, <3>1, <3>2, <3>3
    <2>3. CASE ReadRequest(c, shutdown) \/ TaskEnds(c, Open(c), shutdown)
      <3>1. toClient' = toClient
        BY <2>3 DEF ReadRequest, TaskEnds, End
      <3> QED BY <1>4, <1>6, <2>1, <3>1
    <2>4. CASE Respond(c, Open(c))
      <3>1. PICK r \in serving[c] : Say(c, Response(r, replies[c]))
        BY <2>4 DEF Respond
      <3>2. replies[c] \in Answers /\ r \in Requests
        BY <2>4 DEF Respond, ControlInv, Types, IpcTypes
      <3>3. Response(r, replies[c]) \in Messages /\ Response(r, replies[c]).is # "snapshot"
        BY <3>2 DEF Response, Messages, ResponseMessages
      <3> QED BY <1>4, <1>5, <2>1, <3>1, <3>3
    <2> QED BY <1>7, <2>2, <2>3, <2>4 DEF TaskStep
  <1>8. CASE Receive(c)
    <2> DEFINE m == Head(toClient[c])
    <2>1. /\ toClient[c] # <<>> /\ toClient' = [toClient EXCEPT ![c] = Tail(@)]
          /\ \/ m.is = "snapshot" /\ seen' = [seen EXCEPT ![c] = {m.snapshot}]
             \/ m.is # "snapshot" /\ seen' = seen
      BY <1>8 DEF Receive
    <2>2. /\ m \in Messages
          /\ \E k \in DOMAIN toClient[c] : m = toClient[c][k]
          /\ \A k \in DOMAIN Tail(toClient[c]) : \E j \in DOMAIN toClient[c] : Tail(toClient[c])[k] = toClient[c][j]
          /\ InOrder(seen[c], Tail(toClient[c]))
          /\ m.is = "snapshot" => m.snapshot \in Snapshots /\ InOrder({m.snapshot}, Tail(toClient[c]))
      BY <1>3, <2>1, MessageTaken
    <2> HIDE DEF m
    <2>3. /\ toClient'[c] = Tail(toClient[c])
          /\ \A d \in Clients : d # c => seen'[d] = seen[d] /\ toClient'[d] = toClient[d]
          /\ \/ m.is = "snapshot" /\ seen'[c] = {m.snapshot}
             \/ m.is # "snapshot" /\ seen'[c] = seen[c]
      BY <1>2, <2>1
    <2>4. InOrder(seen'[c], toClient'[c])
      BY <2>2, <2>3
    <2>5. \A s \in seen'[c] : Past(s)
      BY <1>3, <2>2, <2>3
    <2>6. \A k \in DOMAIN toClient'[c] : toClient'[c][k].is = "snapshot" => Past(toClient'[c][k].snapshot)
      BY <1>3, <2>2, <2>3
    <2> QED BY <1>1, <1>4, <2>3, <2>4, <2>5, <2>6, SendingGoesForward
  <1>9. CASE (LinkStep(c) \/ UserStep(c)) /\ ~Receive(c)
    <2>1. /\ toClient' = toClient \/ toClient' = [toClient EXCEPT ![c] = <<>>]
          /\ seen' = seen \/ (seen' = [seen EXCEPT ![c] = {}] /\ toClient' = [toClient EXCEPT ![c] = <<>>])
      BY <1>9 DEF LinkStep, UserStep, ClientStep, Connect, Transmit, Disconnected, Exit, Issue, ipcVars,
                  wires, DropConnection
    <2> QED BY <1>4, <1>6, <2>1
  <1> QED BY <1>7, <1>8, <1>9

-----------------------------------------------------------------------------
(* Saves and the tasks they belong to.                                       *)
LEMMA SavesStayWithTheirTasks ==
    ASSUME ControlInv, Next
    PROVE  SavingPart'
  <1>1. /\ saves \in [Writers -> [at : {"idle", "created", "written", "synced", "renamed"},
                                  config : AppConfig, name : Names]]
        /\ "service" \in Writers /\ "engine" \in Writers
    BY ControlAssumption DEF ControlInv, Types, StoreTypeOK
  <1>2. /\ service = "saving" <=> Saving("service")
        /\ engine = "saving" <=> Saving("engine")
        /\ service \in {"down", "opening", "stopped"} => engine = "none"
    BY DEF ControlInv, SavingPart
  <1>3. ASSUME NEW w \in Writers, NEW v \in Writers, v # w
        PROVE  /\ \A config : CreateTemporary(w, config) => saves'[w].at = "created" /\ saves'[v] = saves[v]
               /\ SaveStep(w) => saves'[w].at # "idle" /\ saves[w].at # "idle" /\ saves'[v] = saves[v]
               /\ Replace(w) => saves'[w].at # "idle" /\ saves[w].at # "idle" /\ saves'[v] = saves[v]
               /\ SyncDirectory(w) => saves'[w].at = "idle" /\ saves[w].at # "idle" /\ saves'[v] = saves[v]
               /\ SaveFails(w) => saves'[w].at = "idle" /\ saves[w].at # "idle" /\ saves'[v] = saves[v]
    <2>1. ASSUME NEW config, CreateTemporary(w, config)
          PROVE  saves'[w].at = "created" /\ saves'[v] = saves[v]
      BY <1>1, <1>3, <2>1 DEF CreateTemporary
    <2>2. ASSUME SaveStep(w) PROVE saves'[w].at # "idle" /\ saves[w].at # "idle" /\ saves'[v] = saves[v]
      BY <1>1, <1>3, <2>2 DEF SaveStep, WriteTemporary, SyncTemporary, Goto, At
    <2>3. ASSUME Replace(w) PROVE saves'[w].at # "idle" /\ saves[w].at # "idle" /\ saves'[v] = saves[v]
      BY <1>1, <1>3, <2>3 DEF Replace, Goto, At
    <2>4. ASSUME SyncDirectory(w) \/ SaveFails(w)
          PROVE  saves'[w].at = "idle" /\ saves[w].at # "idle" /\ saves'[v] = saves[v]
      BY <1>1, <1>3, <2>4 DEF SyncDirectory, SaveFails, At, Saving, Idle
    <2> QED BY <2>1, <2>2, <2>3, <2>4
  <1>4. CASE Start \/ StartFails
    <2>1. saves' = saves /\ engine' = engine /\ service = "down" /\ service' \in {"down", "opening"}
      BY <1>4 DEF Start, StartFails, Load, StoreUnchanged, storeVars
    <2> QED BY <1>2, <2>1 DEF SavingPart, Saving
  <1>5. CASE HandleQuery \/ HandleChange \/ HandleChoose
    <2>1. /\ engine' = engine /\ service = "idle"
          /\ \/ saves' = saves /\ service' \in {"idle", "saved"}
             \/ service' = "saving" /\ \E config : CreateTemporary("service", config)
      BY <1>5 DEF HandleQuery, HandleChange, HandleChoose, Take, SaveBegins, StoreUnchanged, storeVars
    <2>2. \/ saves' = saves /\ service' \in {"idle", "saved"}
          \/ service' = "saving" /\ saves'["service"].at = "created" /\ saves'["engine"] = saves["engine"]
      BY <1>1, <1>3, <2>1
    <2> QED BY <1>2, <2>1, <2>2 DEF SavingPart, Saving
  <1>6. CASE ServiceSaves \/ ServiceReplaces \/ ServiceSaved \/ ServiceSaveFails
    <2>1. engine' = engine
      BY <1>6 DEF ServiceSaves, ServiceReplaces, ServiceSaved, ServiceSaveFails
    <2>2. /\ saves'["engine"] = saves["engine"] /\ saves["service"].at # "idle"
          /\ \/ service' = service /\ saves'["service"].at # "idle"
             \/ service' = "saved" /\ saves'["service"].at = "idle"
      BY <1>1, <1>3, <1>6 DEF ServiceSaves, ServiceReplaces, ServiceSaved, ServiceSaveFails
    <2> QED BY <1>2, <2>1, <2>2 DEF SavingPart, Saving
  <1>7. CASE Opened \/ EffectBegins \/ EffectEnds \/ ServiceEvent
    <2>1. /\ saves' = saves /\ service \in {"opening", "saved", "effect", "idle"}
          /\ service' \in {"idle", "effect"}
      BY <1>7 DEF Opened, EffectBegins, EffectEnds, ServiceEvent, StoreUnchanged, storeVars
    <2>2. engine' = engine \/ (engine # "saving" /\ engine' # "saving")
      BY <1>2, <1>7 DEF Opened, EffectBegins, EffectEnds, ServiceEvent, Stoppable
    <2> QED BY <1>2, <2>1, <2>2 DEF SavingPart, Saving
  <1>8. ASSUME NEW t \in 0..MaxToken, Granted(t) PROVE SavingPart'
    <2>1. /\ engine = "opening" /\ service' = service
          /\ \/ saves' = saves /\ engine' \in {"running", "none"}
             \/ engine' = "saving" /\ saves'["engine"].at = "created" /\ saves'["service"] = saves["service"]
      BY <1>1, <1>3, <1>8 DEF Granted, StoreUnchanged, storeVars
    <2> QED BY <1>2, <2>1 DEF SavingPart, Saving
  <1>9. CASE EngineSaves \/ EngineReplaces \/ EngineSaved
    <2>1. service' = service
      BY <1>9 DEF EngineSaves, EngineReplaces, EngineSaved, EngineRest
    <2>2. /\ saves'["service"] = saves["service"] /\ saves["engine"].at # "idle"
          /\ \/ engine' = engine /\ saves'["engine"].at # "idle"
             \/ engine' = "running" /\ saves'["engine"].at = "idle"
      BY <1>1, <1>3, <1>9 DEF EngineSaves, EngineReplaces, EngineSaved
    <2> QED BY <1>2, <2>1, <2>2 DEF SavingPart, Saving
  <1>10. CASE EngineReopens \/ Shutdown
    <2>1. /\ saves' = saves /\ service' = service
          /\ engine' = engine \/ (engine = "running" /\ engine' = "opening")
      BY <1>10 DEF EngineReopens, Shutdown, EngineRest, StoreUnchanged, storeVars
    <2> QED BY <1>2, <2>1 DEF SavingPart, Saving
  <1>11. CASE Stops \/ Crashes \/ PowerFails
    <2>1. /\ engine' = "none" /\ service' \in {"stopped", "down"}
          /\ \/ saves' = saves /\ engine # "saving" /\ service # "saving"
             \/ saves' = [w \in Writers |-> Idle]
      BY <1>11 DEF Stops, Crashes, PowerFails, Gone, StoreUnchanged, storeVars, Stoppable, Crash,
                   PowerLoss, ProcessDies
    <2>2. saves'["service"].at = "idle" /\ saves'["engine"].at = "idle"
      BY <1>1, <1>2, <2>1 DEF Saving, Idle
    <2> QED BY <2>1, <2>2 DEF SavingPart, Saving
  <1>12. ASSUME NEW c \in Clients, TaskStep(c) \/ LinkStep(c) \/ UserStep(c) PROVE SavingPart'
    <2>1. saves' = saves /\ service' = service /\ engine' = engine
      BY <1>12, ConnectionsRest DEF storeVars
    <2> QED BY <1>2, <2>1 DEF SavingPart, Saving
  <1> QED BY <1>4, <1>5, <1>6, <1>7, <1>8, <1>9, <1>10, <1>11, <1>12 DEF Next, ServiceStep

-----------------------------------------------------------------------------
LEMMA ControlInit ==
    ASSUME Init
    PROVE  ControlInv
  <1>1. /\ published = NoSnapshot /\ requests = <<>> /\ replies = [c \in Clients |-> NoReply]
        /\ task = [c \in Clients |-> "none"] /\ serving = [c \in Clients |-> {}]
        /\ toServer = [c \in Clients |-> <<>>] /\ toClient = [c \in Clients |-> <<>>]
        /\ link = [c \in Clients |-> "connecting"] /\ outbound = [c \in Clients |-> <<>>]
        /\ seen = [c \in Clients |-> {}] /\ outcome = [r \in Requests |-> "unsent"]
        /\ service = "down" /\ shutdown = FALSE /\ epoch = 0 /\ setting = 0 /\ token = 0
        /\ revision = 0 /\ inHand = {} /\ engine = "none"
        /\ legacy = [Default EXCEPT !.token = MaxToken]
        /\ runs = [r \in Requests |-> 0] /\ stored = FALSE /\ promised = 0
    BY DEF Init, IpcInit, ClientInit
  <1>2. /\ file \in {Absent, Foreign, Saved(Default)} /\ entries = {file}
        /\ temporaries = [n \in Names |-> NoEntry] /\ saves = [w \in Writers |-> Idle]
        /\ collided = FALSE
    BY DEF Init, StoreInit
  <1>3. <<>> \in Seq(Request) /\ Len(<<>>) = 0 /\ Ids(<<>>) = {} /\ Distinct(<<>>) /\ DOMAIN <<>> = {}
        /\ <<>> \in Seq(Messages) /\ InOrder({}, <<>>)
    BY NoRequests, NoMessages
  <1>4. MaxToken \in Nat /\ MaxSetting \in Nat /\ 0 \in 0..MaxToken /\ 0 \in 0..MaxSetting
    BY StoreAssumption
  <1>5. ServiceTypes
    <2>1. legacy \in AppConfig /\ legacy.setting = 0
      BY <1>1, <1>4 DEF Default, AppConfig
    <2> QED BY <1>1, <1>4, <2>1 DEF ServiceTypes
  <1>6. IpcTypes
    <2>1. NoSnapshot \in Snapshots
      BY DEF NoSnapshot, Snapshots
    <2>2. Len(requests) <= RequestCapacity
      BY <1>1, <1>3, IpcAssumption
    <2> QED BY <1>1, <1>3, <2>1, <2>2 DEF IpcTypes
  <1>7. ClientTypes /\ HistoryTypes
    <2>1. 0 \in 0..1
      OBVIOUS
    <2>2. runs \in [Requests -> 0..1]
      BY <1>1, <2>1
    <2> QED BY <1>1, <1>3, <2>2 DEF ClientTypes, HistoryTypes
  <1>8. StoreTypeOK /\ Bounded(0)
    <2>1. Foreign \in File /\ Foreign.config = Default
      BY FilesOfTheStore DEF Foreign, File
    <2>2. file \in File /\ file.config = Default
      BY <1>2, <2>1, FilesOfTheStore
    <2>3. Idle \in [at : {"idle", "created", "written", "synced", "renamed"},
                    config : AppConfig, name : Names] /\ Idle.config = Default
      BY FilesOfTheStore DEF Idle
    <2>4. collided \in BOOLEAN
      BY <1>2, Zenon
    <2> QED BY <1>2, <2>2, <2>3, <2>4, FilesOfTheStore DEF StoreTypeOK, Bounded
  <1>9. CountedPart
    <2>1. {r \in Requests : runs[r] = 1} = {}
      BY <1>1
    <2>2. Handled = 0
      BY <2>1, FS_EmptySet DEF Handled
    <2> QED BY <1>1, <1>8, <2>2 DEF CountedPart
  <1>10. PlacesPart /\ FreshPart
    BY <1>1, <1>3 DEF PlacesPart, FreshPart
  <1>11. ServedPart /\ AnsweredPart
    BY <1>1, <1>3 DEF ServedPart, AnsweredPart
  <1>12. PublishedPart /\ OnTheWayPart
    BY <1>1, <1>3 DEF PublishedPart, OnTheWayPart, Running
  <1>13. SavingPart
    <2>1. "service" \in Writers /\ "engine" \in Writers
      BY ControlAssumption
    <2> QED BY <1>1, <1>2, <2>1 DEF SavingPart, Saving, Idle
  <1> QED BY <1>5, <1>6, <1>7, <1>8, <1>9, <1>10, <1>11, <1>12, <1>13 DEF ControlInv, Types

LEMMA ControlNext ==
    ASSUME ControlInv, [Next]_vars
    PROVE  ControlInv'
  <1>1. CASE UNCHANGED vars
    <2>1. RequestParts'
      BY <1>1, RequestsRest DEF vars, ipcVars, wires, clientVars, serviceVars, history, requestVars
    <2>2. Types'
      BY <1>1 DEF ControlInv, Types, ServiceTypes, IpcTypes, ClientTypes, HistoryTypes, StoreTypeOK,
                  CountedPart, Handled, Bounded, vars, ipcVars, wires, clientVars, storeVars, serviceVars, history
    <2>3. PublishedPart' /\ OnTheWayPart' /\ SavingPart'
      BY <1>1 DEF ControlInv, PublishedPart, OnTheWayPart, SavingPart, Past, Running, Saving,
                  vars, ipcVars, wires, clientVars, storeVars, serviceVars, history
    <2> QED BY <2>1, <2>2, <2>3 DEF ControlInv, RequestParts
  <1>2. CASE Next
    <2>1. SavingPart'
      BY <1>2, SavesStayWithTheirTasks
    <2>2. ASSUME Types', RequestParts', PublishedPart', OnTheWayPart' PROVE ControlInv'
      BY <2>1, <2>2 DEF ControlInv, RequestParts
    <2>3. CASE Start \/ StartFails
      <3>1. UNCHANGED requestVars
        BY <2>3 DEF Start, StartFails, requestVars, ClientsUnchanged, clientVars, wires, ipcVars, history
      <3> QED BY <2>2, <2>3, <3>1, RequestsRest, StartsKeepTypes, ServiceKeepsSnapshots
    <2>4. CASE HandleQuery \/ HandleChange \/ HandleChoose
      BY <2>2, <2>4, HandlersKeepRequests, HandlersKeepTypes, ServiceKeepsSnapshots
    <2>5. CASE Saves
      BY <2>2, <2>5, SavesRest, RequestsRest, SavesKeepTypes, ServiceKeepsSnapshots
    <2>6. CASE Opened \/ EffectBegins \/ ServiceEvent
      <3>1. UNCHANGED requestVars
        BY <2>6 DEF Opened, EffectBegins, ServiceEvent, requestVars, ClientsUnchanged, clientVars, wires,
                    IpcRest, history
      <3> QED BY <2>2, <2>6, <3>1, RequestsRest, EffectsKeepTypes, ServiceKeepsSnapshots
    <2>7. CASE EffectEnds
      BY <2>2, <2>7, EffectEndsKeepsRequests, EffectsKeepTypes, ServiceKeepsSnapshots
    <2>8. CASE Stops \/ Crashes \/ PowerFails
      BY <2>2, <2>8, EndsKeepRequests, EndsKeepTypes, EndsKeepSnapshots
    <2>9. ASSUME NEW c \in Clients, TaskStep(c) \/ LinkStep(c) \/ UserStep(c) PROVE ControlInv'
      BY <2>2, <2>9, TaskStepKeepsRequests, LinkStepKeepsRequests, UserStepKeepsRequests,
         TaskStepKeepsTypes, ClientStepsKeepTypes, ConnectionsKeepSnapshots
    <2> QED BY <1>2, <2>3, <2>4, <2>5, <2>6, <2>7, <2>8, <2>9 DEF Next, ServiceStep, Saves
  <1> QED BY <1>1, <1>2

LEMMA ControlHolds == Spec => []ControlInv
  <1>1. Init => ControlInv
    BY ControlInit
  <1>2. ControlInv /\ [Next]_vars => ControlInv'
    BY ControlNext
  <1> QED BY <1>1, <1>2, PTL DEF Spec

(* However often connections are lost and made again and the service is      *)
(* started, a request is handled once at most, and a client has the answer   *)
(* to a request only when that one was handled.                              *)
THEOREM RequestsAreHandledOnce == Spec => []RequestsRunOnce
  <1>1. ControlInv => RequestsRunOnce
    <2> SUFFICES ASSUME ControlInv, NEW r \in Requests
                 PROVE  runs[r] <= 1 /\ (outcome[r] \in {"ok", "error"} => runs[r] = 1)
      BY DEF RequestsRunOnce
    <2>1. runs[r] \in 0..1
      BY DEF ControlInv, Types, HistoryTypes
    <2>2. outcome[r] \in {"ok", "error"} => runs[r] = 1
      BY DEF ControlInv, AnsweredPart
    <2> QED BY <2>1, <2>2
  <1> QED BY <1>1, ControlHolds, PTL

(* What a client shows never goes back, within a run of the service or from  *)
(* one run to the next.                                                      *)
THEOREM ShownGoesForward == Spec => SnapshotsGoForward
  <1> DEFINE Forward == \A c \in Clients : \A s \in seen[c], t \in seen'[c] : Before(s, t)
  <1>1. ASSUME ControlInv, [Next]_vars
        PROVE  Forward
    <2> SUFFICES ASSUME NEW c \in Clients, NEW s \in seen[c], NEW t \in seen'[c] PROVE Before(s, t)
      OBVIOUS
    <2>1. /\ seen[c] \in SUBSET Snapshots /\ toClient[c] \in Seq(Messages)
          /\ InOrder(seen[c], toClient[c]) /\ seen \in [Clients -> SUBSET Snapshots]
      BY <1>1, SentIsPast DEF ControlInv, Types, ClientTypes
    <2>2. CASE t \in seen[c]
      BY <2>1, <2>2 DEF InOrder
    <2>3. CASE Receive(c) /\ Head(toClient[c]).is = "snapshot"
      <3>1. toClient[c] # <<>> /\ seen' = [seen EXCEPT ![c] = {Head(toClient[c]).snapshot}]
        BY <2>3 DEF Receive
      <3>2. t = Head(toClient[c]).snapshot
        BY <2>1, <3>1
      <3>3. 1 \in DOMAIN toClient[c] /\ Head(toClient[c]) = toClient[c][1]
        BY <2>1, <3>1, QueueFacts
      <3> QED BY <2>1, <2>3, <3>2, <3>3 DEF InOrder
    <2>4. CASE ~(Receive(c) /\ Head(toClient[c]).is = "snapshot")
      <3>1. ASSUME NEW d \in Clients, TaskStep(d) \/ LinkStep(d) \/ UserStep(d)
            PROVE  seen'[c] \subseteq seen[c]
        <4>1. \/ seen' = seen \/ seen' = [seen EXCEPT ![d] = {}]
              \/ Receive(d) /\ Head(toClient[d]).is = "snapshot"
                    /\ seen' = [seen EXCEPT ![d] = {Head(toClient[d]).snapshot}]
          BY <3>1 DEF TaskStep, LinkStep, UserStep, ClientStep, Connect, Transmit, Receive, Disconnected,
                      Exit, Issue, clientVars
        <4> QED BY <2>1, <2>4, <4>1
      <3>2. ASSUME UNCHANGED vars PROVE seen'[c] \subseteq seen[c]
        BY <3>2 DEF vars, clientVars
      <3>3. ASSUME Saves PROVE seen'[c] \subseteq seen[c]
        BY <1>1, <3>3, SavesRest DEF clientVars
      <3>4. ASSUME \/ Start \/ StartFails \/ HandleQuery \/ HandleChange \/ HandleChoose
                   \/ Opened \/ EffectBegins \/ EffectEnds \/ ServiceEvent \/ Stops \/ Crashes
            PROVE  seen'[c] \subseteq seen[c]
        BY <3>4 DEF Start, StartFails, HandleQuery, HandleChange, HandleChoose, Take, Opened, EffectBegins,
                    EffectEnds, ServiceEvent, Stops, Crashes, ClientsUnchanged, clientVars
      <3>5. ASSUME PowerFails PROVE seen'[c] \subseteq seen[c]
        BY <3>5 DEF PowerFails
      <3>6. seen'[c] \subseteq seen[c]
        BY <1>1, <3>1, <3>2, <3>3, <3>4, <3>5 DEF Next, ServiceStep, Saves
      <3> QED BY <2>2, <3>6
    <2> QED BY <2>3, <2>4
  <1>2. ControlInv /\ [Next]_vars => [Forward]_vars
    BY <1>1
  <1> QED BY <1>2, ControlHolds, PTL DEF Spec, SnapshotsGoForward

-----------------------------------------------------------------------------
(* The file.  A writer's temporary file is its own and holds what its step   *)
(* says; once it has been renamed, the file is whole.                        *)
TemporaryPart ==
    \A w \in Writers :
        /\ At(w, "created") \/ At(w, "written") \/ At(w, "synced") => Temporary(w).owner = {w}
        /\ At(w, "synced") => Temporary(w).file = Saved(saves[w].config)
        /\ At(w, "renamed") => file.is = "whole"

(* What was answered is in every file that a crash can leave, a save of the  *)
(* service's never undoes it, and what it is about to answer is there too.   *)
Has(n) == \A f \in entries : f.is = "whole" /\ f.config.setting >= n
KeptPart ==
    /\ file \in entries /\ \A f \in entries : f.synced /\ f.is # "torn"
    /\ promised > 0 => Has(promised)
    /\ Running => promised <= setting
    /\ Saving("service") => promised <= saves["service"].config.setting
    /\ stored => service \in {"saved", "effect"} /\ Has(setting)

StoreInv == ControlInv /\ TemporaryPart /\ KeptPart

LEMMA StoreInvTypes ==
    ASSUME StoreInv
    PROVE  /\ "service" \in Writers /\ "engine" \in Writers /\ Writers = {"service", "engine"}
           /\ file \in File /\ entries \in SUBSET File
           /\ temporaries \in [Names -> [owner : SUBSET Writers, file : File]]
           /\ saves \in [Writers -> [at : {"idle", "created", "written", "synced", "renamed"},
                                     config : AppConfig, name : Names]]
           /\ \A w \in Writers : /\ saves[w].name \in Names /\ saves[w].config \in AppConfig
                                 /\ saves[w].config.setting \in Nat
           /\ \A f \in File : f.config.setting \in Nat
           /\ setting \in Nat /\ promised \in Nat /\ stored \in BOOLEAN
           /\ service = "saving" <=> Saving("service")
           /\ engine = "saving" <=> Saving("engine")
           /\ service \in {"down", "opening", "stopped"} => engine = "none"
           /\ StoreTypeOK /\ legacy \in AppConfig /\ legacy.setting = 0
           /\ Loaded(legacy).setting \in Nat
  <1>1. StoreTypeOK /\ legacy \in AppConfig /\ legacy.setting = 0 /\ Bounded(Handled) /\ Handled \in Nat
    BY HandledFacts DEF StoreInv, ControlInv, Types, ServiceTypes, CountedPart
  <1>2. Loaded(legacy).setting \in Nat
    BY <1>1, LoadedIsConfig DEF AppConfig
  <1>3. "service" \in Writers /\ "engine" \in Writers /\ Writers = {"service", "engine"}
    BY ControlAssumption
  <1>4. /\ setting \in Nat /\ promised \in Nat /\ stored \in BOOLEAN
        /\ service = "saving" <=> Saving("service")
        /\ engine = "saving" <=> Saving("engine")
        /\ service \in {"down", "opening", "stopped"} => engine = "none"
    BY DEF StoreInv, ControlInv, Types, ServiceTypes, HistoryTypes, SavingPart
  <1>5. \A f \in File : f.config.setting \in Nat
    BY DEF File, AppConfig
  <1>6. /\ file \in File /\ entries \in SUBSET File
        /\ temporaries \in [Names -> [owner : SUBSET Writers, file : File]]
        /\ saves \in [Writers -> [at : {"idle", "created", "written", "synced", "renamed"},
                                     config : AppConfig, name : Names]]
    BY <1>1 DEF StoreTypeOK
  <1>7. \A w \in Writers : /\ saves[w].name \in Names /\ saves[w].config \in AppConfig
                           /\ saves[w].config.setting \in Nat
    BY <1>6 DEF AppConfig
  <1> QED BY <1>1, <1>2, <1>3, <1>4, <1>5, <1>6, <1>7

(* One writer's step, taken by itself, leaves the other's file alone: names  *)
(* are private, and a save that fails removes nobody else's.                 *)
LEMMA WriterKeepsTemporaries ==
    ASSUME StoreInv, ~collided', NEW w \in Writers, NEW config,
           CreateTemporary(w, config) \/ SaveStep(w) \/ Replace(w) \/ SyncDirectory(w) \/ SaveFails(w)
    PROVE  TemporaryPart'
  <1>1. /\ temporaries \in [Names -> [owner : SUBSET Writers, file : File]]
        /\ saves \in [Writers -> [at : {"idle", "created", "written", "synced", "renamed"},
                                     config : AppConfig, name : Names]]
        /\ \A v \in Writers : saves[v].name \in Names
    BY StoreInvTypes
  <1>2. \A v \in Writers : {v} # {} /\ (v # w => {v} # {w})
    BY Zenon
  <1>3. \A v \in Writers :
            /\ saves[v].at \in {"created", "written", "synced"} => temporaries[saves[v].name].owner = {v}
            /\ saves[v].at = "synced" => temporaries[saves[v].name].file = Saved(saves[v].config)
            /\ saves[v].at = "renamed" => file.is = "whole"
    BY DEF StoreInv, TemporaryPart, At, Temporary
  <1>4. ASSUME NEW name \in Names, temporaries[name].owner \in {{}, {w}},
               \A v \in Writers : v # w => saves'[v] = saves[v],
               \A n \in Names : n # name => temporaries'[n] = temporaries[n],
               file' = file \/ file'.is = "whole",
               saves'[w].at \in {"created", "written", "synced"} => temporaries'[saves'[w].name].owner = {w},
               saves'[w].at = "synced" => temporaries'[saves'[w].name].file = Saved(saves'[w].config),
               saves'[w].at = "renamed" => file'.is = "whole"
        PROVE  TemporaryPart'
    <2>1. ASSUME NEW v \in Writers
          PROVE  /\ saves'[v].at \in {"created", "written", "synced"} => temporaries'[saves'[v].name].owner = {v}
                 /\ saves'[v].at = "synced" => temporaries'[saves'[v].name].file = Saved(saves'[v].config)
                 /\ saves'[v].at = "renamed" => file'.is = "whole"
      <3>1. CASE v = w
        BY <1>4, <3>1
      <3>2. CASE v # w
        <4>1. saves'[v] = saves[v]
          BY <1>4, <3>2
        <4>2. saves[v].at \in {"created", "written", "synced"} => saves[v].name # name
          BY <1>2, <1>3, <1>4, <3>2
        <4>3. saves[v].at \in {"created", "written", "synced"} =>
                  temporaries'[saves[v].name] = temporaries[saves[v].name]
          BY <1>1, <1>4, <4>2
        <4>4. saves[v].at = "renamed" => file'.is = "whole"
          BY <1>3, <1>4
        <4> QED BY <1>3, <4>1, <4>3, <4>4
      <3> QED BY <3>1, <3>2
    <2> QED BY <2>1 DEF TemporaryPart, At, Temporary
  <1>5. CASE CreateTemporary(w, config)
    <2>1. PICK name \in Names :
              /\ Free(name)
              /\ temporaries' = [temporaries EXCEPT ![name] = [owner |-> {w}, file |-> Torn]]
              /\ saves' = [saves EXCEPT ![w] = [at |-> "created", config |-> config, name |-> name]]
      BY <1>5 DEF CreateTemporary, FirstFree
    <2>2. temporaries[name].owner = {} /\ file' = file
      BY <1>5, <2>1 DEF Free, NoEntry, CreateTemporary
    <2>3. /\ saves'[w].at = "created" /\ saves'[w].name = name /\ temporaries'[name].owner = {w}
          /\ \A v \in Writers : v # w => saves'[v] = saves[v]
          /\ \A n \in Names : n # name => temporaries'[n] = temporaries[n]
      BY <1>1, <2>1
    <2> QED BY <1>1, <1>2, <1>3, <1>4, <2>2, <2>3
  <1>6. CASE SaveStep(w)
    <2>1. \E f : \E at \in {"written", "synced"} :
              /\ saves[w].at \in {"created", "written"} /\ Fill(w, f) /\ Goto(w, at)
              /\ at = "synced" => f = Saved(saves[w].config)
      <3>1. CASE WriteTemporary(w)
        BY <3>1 DEF WriteTemporary, At
      <3>2. CASE SyncTemporary(w)
        BY <3>2 DEF SyncTemporary, At
      <3> QED BY <1>6, <3>1, <3>2 DEF SaveStep
    <2>2. PICK f, at :
              /\ at \in {"written", "synced"}
              /\ saves[w].at \in {"created", "written"} /\ Fill(w, f) /\ Goto(w, at)
              /\ at = "synced" => f = Saved(saves[w].config)
      BY <2>1
    <2>3. /\ temporaries[saves[w].name].owner = {w} /\ file' = file
          /\ temporaries' = [temporaries EXCEPT ![saves[w].name].file = f]
      BY <1>3, <1>6, <2>2 DEF Fill, Temporary, SaveStep, WriteTemporary, SyncTemporary
    <2>4. /\ saves'[w].at = at /\ saves'[w].name = saves[w].name /\ saves'[w].config = saves[w].config
          /\ \A v \in Writers : v # w => saves'[v] = saves[v]
          /\ temporaries'[saves[w].name].owner = {w} /\ temporaries'[saves[w].name].file = f
          /\ \A n \in Names : n # saves[w].name => temporaries'[n] = temporaries[n]
      BY <1>1, <2>2, <2>3 DEF Goto
    <2> QED BY <1>1, <1>2, <1>3, <1>4, <2>2, <2>3, <2>4
  <1>7. CASE Replace(w)
    <2>1. /\ saves[w].at = "synced" /\ file' = temporaries[saves[w].name].file
          /\ saves' = [saves EXCEPT ![w].at = "renamed"]
          /\ temporaries' = [temporaries EXCEPT ![saves[w].name] = NoEntry]
      BY <1>7 DEF Replace, At, Temporary, Goto, Unlink
    <2>2. file'.is = "whole" /\ temporaries[saves[w].name].owner = {w}
      <3>1. temporaries[saves[w].name].file = Saved(saves[w].config)
        BY <1>3, <2>1
      <3> QED BY <1>3, <2>1, <3>1 DEF Saved
    <2>3. /\ saves'[w].at = "renamed"
          /\ \A v \in Writers : v # w => saves'[v] = saves[v]
          /\ \A n \in Names : n # saves[w].name => temporaries'[n] = temporaries[n]
      BY <1>1, <2>1
    <2> QED BY <1>1, <1>2, <1>3, <1>4, <2>2, <2>3
  <1>8. CASE SyncDirectory(w)
    <2>1. saves' = [saves EXCEPT ![w] = Idle] /\ file' = file /\ temporaries' = temporaries
      BY <1>8 DEF SyncDirectory
    <2>2. saves'[w].at = "idle" /\ \A v \in Writers : v # w => saves'[v] = saves[v]
      BY <1>1, <2>1 DEF Idle
    <2> QED BY <1>3, <2>1, <2>2 DEF TemporaryPart, At, Temporary
  <1>9. CASE SaveFails(w)
    <2>1. /\ saves' = [saves EXCEPT ![w] = Idle] /\ file' = file
          /\ temporaries' = [temporaries EXCEPT ![saves[w].name] = NoEntry]
          /\ saves[w].at # "idle"
          /\ saves[w].at = "renamed" => temporaries[saves[w].name] = NoEntry
      BY <1>9, Zenon DEF SaveFails, Unlink, At, Saving, Temporary
    <2>2. /\ saves'[w].at = "idle" /\ \A v \in Writers : v # w => saves'[v] = saves[v]
          /\ \A n \in Names : n # saves[w].name => temporaries'[n] = temporaries[n]
      BY <1>1, <2>1 DEF Idle
    <2>3. CASE saves[w].at = "renamed"
      <3>1. temporaries' = temporaries
        BY <1>1, <2>1, <2>3
      <3> QED BY <1>3, <2>1, <2>2, <3>1 DEF TemporaryPart, At, Temporary
    <2>4. CASE saves[w].at # "renamed"
      <3>1. temporaries[saves[w].name].owner = {w}
        BY <1>1, <1>3, <2>1, <2>4
      <3> QED BY <1>1, <1>2, <1>3, <1>4, <2>1, <2>2, <3>1
    <2> QED BY <2>3, <2>4
  <1> QED BY <1>5, <1>6, <1>7, <1>8, <1>9

LEMMA TemporariesKept ==
    ASSUME StoreInv, ~collided', Next
    PROVE  TemporaryPart'
  <1>1. "service" \in Writers /\ "engine" \in Writers /\ Writers = {"service", "engine"}
    BY StoreInvTypes
  <1>2. ASSUME UNCHANGED storeVars PROVE TemporaryPart'
    BY <1>2 DEF StoreInv, TemporaryPart, storeVars, At, Temporary
  <1>3. ASSUME \A w \in Writers : saves'[w].at = "idle" PROVE TemporaryPart'
    BY <1>3 DEF TemporaryPart, At
  <1>4. CASE Start
    <2>1. service = "down" /\ saves' = saves
      BY <1>4 DEF Start, Load
    <2>2. ~Saving("service") /\ ~Saving("engine")
      BY <2>1, StoreInvTypes
    <2> QED BY <1>1, <1>3, <2>1, <2>2 DEF Saving
  <1>5. CASE HandleQuery \/ HandleChange \/ HandleChoose
    <2>1. UNCHANGED storeVars \/ \E config : CreateTemporary("service", config)
      BY <1>5 DEF HandleQuery, HandleChange, HandleChoose, SaveBegins, StoreUnchanged
    <2> QED BY <1>1, <1>2, <2>1, WriterKeepsTemporaries
  <1>6. CASE Saves
    <2>1. \/ UNCHANGED storeVars
          \/ \E w \in Writers : \E config :
                CreateTemporary(w, config) \/ SaveStep(w) \/ Replace(w) \/ SyncDirectory(w) \/ SaveFails(w)
      BY <1>1, <1>6 DEF Saves, ServiceSaves, ServiceReplaces, ServiceSaved, ServiceSaveFails, Granted,
                        EngineSaves, EngineReplaces, EngineSaved, EngineReopens, Shutdown, StoreUnchanged
    <2> QED BY <1>2, <2>1, WriterKeepsTemporaries
  <1>7. CASE Crashes \/ PowerFails
    <2>1. saves' = [w \in Writers |-> Idle]
      BY <1>7 DEF Crashes, PowerFails, Crash, PowerLoss, ProcessDies
    <2> QED BY <1>3, <2>1 DEF Idle
  <1>8. CASE StartFails \/ Opened \/ EffectBegins \/ EffectEnds \/ ServiceEvent \/ Stops
    <2>1. UNCHANGED storeVars
      BY <1>8 DEF StartFails, Opened, EffectBegins, EffectEnds, ServiceEvent, Stops, StoreUnchanged
    <2> QED BY <1>2, <2>1
  <1>9. ASSUME NEW c \in Clients, TaskStep(c) \/ LinkStep(c) \/ UserStep(c) PROVE TemporaryPart'
    <2>1. UNCHANGED storeVars
      BY <1>9, ConnectionsRest DEF StoreInv
    <2> QED BY <1>2, <2>1
  <1> QED BY <1>4, <1>5, <1>6, <1>7, <1>8, <1>9 DEF Next, ServiceStep, Saves

(* A step that leaves the file alone keeps what was answered in it, when the  *)
(* settings only get newer and only a saved setting is called stored.        *)
LEMMA FileUntouched ==
    ASSUME StoreInv, UNCHANGED <<file, entries>>, promised' = promised,
           Running' => promised <= setting',
           saves'["service"].at # "idle" => promised <= saves'["service"].config.setting,
           stored' = FALSE \/ (stored' = stored /\ setting' = setting
                               /\ (service' = service \/ service' \in {"saved", "effect"}))
    PROVE  KeptPart'
  <1>1. KeptPart
    BY DEF StoreInv
  <1>2. /\ file' \in entries' /\ \A f \in entries' : f.synced /\ f.is # "torn"
        /\ promised' > 0 => \A f \in entries' : f.is = "whole" /\ f.config.setting >= promised'
    BY <1>1 DEF KeptPart, Has
  <1>3. stored' => service' \in {"saved", "effect"}
                   /\ \A f \in entries' : f.is = "whole" /\ f.config.setting >= setting'
    <2>1. CASE stored' = FALSE
      BY <2>1
    <2>2. CASE stored' = stored /\ setting' = setting /\ (service' = service \/ service' \in {"saved", "effect"})
      <3>1. stored' => stored
        BY <2>2
      <3>2. stored => service' \in {"saved", "effect"} /\ Has(setting)
        BY <1>1, <2>2 DEF KeptPart
      <3> QED BY <2>2, <3>1, <3>2 DEF Has
    <2> QED BY <2>1, <2>2
  <1> QED BY <1>2, <1>3 DEF KeptPart, Has, Saving

(* One writer renames: the file and what may be left of it.                  *)
LEMMA FileReplaced ==
    ASSUME StoreInv, NEW w \in Writers, Replace(w)
    PROVE  /\ file' = Saved(saves[w].config) /\ entries' = entries \cup {Saved(saves[w].config)}
           /\ NewSetting(w) = saves[w].config.setting
           /\ \A v \in Writers : /\ saves'[v].at # "idle" => saves[v].at # "idle"
                                 /\ saves'[v].config = saves[v].config
  <1>1. Temporary(w).file = Saved(saves[w].config)
    BY DEF StoreInv, TemporaryPart, Replace
  <1>2. saves \in [Writers -> [at : {"idle", "created", "written", "synced", "renamed"},
                               config : AppConfig, name : Names]]
    BY StoreInvTypes
  <1>3. saves[w].at = "synced" /\ saves' = [saves EXCEPT ![w].at = "renamed"]
    BY DEF Replace, At, Goto
  <1>4. \A v \in Writers : /\ saves'[v].at # "idle" => saves[v].at # "idle"
                           /\ saves'[v].config = saves[v].config
    BY <1>2, <1>3
  <1> QED BY <1>1, <1>4 DEF Replace, NewSetting, Saved

(* The steps of the two savers.                                              *)
LEMMA SavesKeepAnswered ==
    ASSUME StoreInv, ~collided', Saves
    PROVE  KeptPart'
  <1>1. /\ "service" \in Writers /\ "engine" \in Writers /\ Writers = {"service", "engine"}
        /\ saves \in [Writers -> [at : {"idle", "created", "written", "synced", "renamed"},
                                  config : AppConfig, name : Names]]
        /\ \A w \in Writers : saves[w].config.setting \in Nat
        /\ setting \in Nat /\ promised \in Nat /\ stored \in BOOLEAN
        /\ \A f \in entries : f.config.setting \in Nat
    BY StoreInvTypes
  <1>2. /\ service = "saving" <=> saves["service"].at # "idle"
        /\ engine = "saving" <=> saves["engine"].at # "idle"
    BY StoreInvTypes DEF Saving
  <1>3. /\ file \in entries /\ \A f \in entries : f.synced /\ f.is # "torn"
        /\ promised > 0 => Has(promised)
        /\ Running => promised <= setting
        /\ saves["service"].at # "idle" => promised <= saves["service"].config.setting
        /\ stored => service \in {"saved", "effect"} /\ Has(setting)
    BY DEF StoreInv, KeptPart, Saving
  <1>4. setting' = setting /\ Running' = Running
    BY SavesRest DEF StoreInv
  <1>5. \A w \in Writers : saves[w].at = "renamed" => file.is = "whole"
    BY DEF StoreInv, TemporaryPart, At
  <1>6. ASSUME NEW w \in Writers, SaveStep(w) \/ SyncDirectory(w) \/ SaveFails(w)
        PROVE  saves'["service"].at # "idle" =>
                   saves["service"].at # "idle" /\ saves'["service"].config = saves["service"].config
    <2>1. \/ \E at \in {"written", "synced"} :
                saves[w].at # "idle" /\ saves' = [saves EXCEPT ![w].at = at]
          \/ saves' = [saves EXCEPT ![w] = Idle]
      BY <1>6 DEF SaveStep, WriteTemporary, SyncTemporary, At, Goto, SyncDirectory, SaveFails
    <2>2. Idle.at = "idle"
      BY DEF Idle
    <2> QED BY <1>1, <2>1, <2>2
  <1>7. ASSUME NEW config, CreateTemporary("engine", config)
        PROVE  saves'["service"] = saves["service"]
    <2>1. PICK s : saves' = [saves EXCEPT !["engine"] = s]
      BY <1>7 DEF CreateTemporary
    <2>2. "engine" # "service"
      OBVIOUS
    <2> QED BY <1>1, <2>1, <2>2
  <1>8. ASSUME NEW w \in Writers, SaveStep(w) \/ SaveFails(w), promised' = promised, stored' = stored,
               service' = service \/ service' \in {"saved", "effect"}
        PROVE  KeptPart'
    <2>1. UNCHANGED <<file, entries>>
      BY <1>8 DEF SaveStep, WriteTemporary, SyncTemporary, SaveFails
    <2> QED BY <1>3, <1>4, <1>6, <1>8, <2>1, FileUntouched
  <1>9. ASSUME NEW w \in Writers, SyncDirectory(w), promised' = promised,
               \/ stored' = stored /\ service' = service
               \/ stored' = (file.config.setting = setting) /\ service' = "saved"
        PROVE  KeptPart'
    <2>1. entries' = {file} /\ file' = file /\ saves[w].at = "renamed"
      BY <1>9 DEF SyncDirectory, At
    <2>2. file.is = "whole" /\ file.config.setting \in Nat
      BY <1>1, <1>3, <1>5, <2>1
    <2>3. /\ file' \in entries' /\ \A f \in entries' : f.synced /\ f.is # "torn"
          /\ promised' > 0 => \A f \in entries' : f.is = "whole" /\ f.config.setting >= promised'
      BY <1>3, <1>9, <2>1 DEF Has
    <2>4. stored' => service' \in {"saved", "effect"}
                     /\ \A f \in entries' : f.is = "whole" /\ f.config.setting >= setting'
      <3>1. CASE stored' = stored /\ service' = service
        <4>1. stored' => stored
          BY <3>1
        <4>2. stored => service' \in {"saved", "effect"} /\ file.config.setting >= setting
          BY <1>3, <3>1 DEF Has
        <4> QED BY <1>4, <2>1, <2>2, <4>1, <4>2
      <3>2. CASE stored' = (file.config.setting = setting) /\ service' = "saved"
        <4>1. stored' => file.config.setting = setting
          BY <3>2
        <4>2. file.config.setting = setting => file.config.setting >= setting
          BY <1>1, <2>2
        <4> QED BY <1>4, <2>1, <2>2, <3>2, <4>1, <4>2
      <3> QED BY <1>9, <3>1, <3>2
    <2>5. Running' => promised' <= setting'
      BY <1>3, <1>4, <1>9
    <2>6. saves'["service"].at # "idle" => promised' <= saves'["service"].config.setting
      BY <1>3, <1>6, <1>9
    <2> QED BY <2>3, <2>4, <2>5, <2>6 DEF KeptPart, Has, Saving
  <1>10. CASE ServiceSaves
    BY <1>1, <1>8, <1>10 DEF ServiceSaves, history
  <1>11. CASE ServiceReplaces
    <2>1. /\ file' = Saved(saves["service"].config)
          /\ entries' = entries \cup {Saved(saves["service"].config)}
          /\ saves'["service"].config = saves["service"].config
      BY <1>1, <1>11, FileReplaced DEF ServiceReplaces
    <2>2. saves["service"].at # "idle"
      BY <1>11 DEF ServiceReplaces, Replace, At
    <2>3. promised <= saves["service"].config.setting /\ service = "saving"
      BY <1>2, <1>3, <2>2
    <2>4. stored' = stored /\ promised' = promised /\ service' = service
      BY <1>11 DEF ServiceReplaces, history
    <2>5. ~stored'
      BY <1>3, <2>3, <2>4
    <2>6. \A f \in entries' : f \in entries \/ f = Saved(saves["service"].config)
      BY <2>1
    <2>7. Saved(saves["service"].config).is = "whole" /\ Saved(saves["service"].config).synced
          /\ Saved(saves["service"].config).config = saves["service"].config
      BY DEF Saved
    <2>8. file' \in entries' /\ \A f \in entries' : f.synced /\ f.is # "torn"
      BY <1>3, <2>1, <2>6, <2>7
    <2>9. promised > 0 => \A f \in entries' : f.is = "whole" /\ f.config.setting >= promised
      BY <1>1, <1>3, <2>3, <2>6, <2>7 DEF Has
    <2>10. Running' => promised' <= setting'
      BY <1>3, <1>4, <2>4
    <2> QED BY <2>1, <2>3, <2>4, <2>5, <2>8, <2>9, <2>10 DEF KeptPart, Has, Saving
  <1>12. CASE ServiceSaved
    BY <1>1, <1>9, <1>12 DEF ServiceSaved
  <1>13. CASE ServiceSaveFails
    BY <1>1, <1>8, <1>13 DEF ServiceSaveFails, history
  <1>14. ASSUME NEW t \in 0..MaxToken, Granted(t) PROVE KeptPart'
    <2>1. /\ stored' = stored /\ promised' = promised /\ service' = service
          /\ UNCHANGED storeVars \/ \E config : CreateTemporary("engine", config)
      BY <1>14 DEF Granted, StoreUnchanged, history
    <2>2. UNCHANGED <<file, entries>>
      BY <2>1 DEF storeVars, CreateTemporary
    <2>3. saves'["service"] = saves["service"]
      BY <1>7, <2>1 DEF storeVars
    <2> QED BY <1>3, <1>4, <2>1, <2>2, <2>3, FileUntouched
  <1>15. CASE EngineSaves
    BY <1>1, <1>8, <1>15 DEF EngineSaves, EngineRest
  <1>16. CASE EngineReplaces
    <2> DEFINE new == saves["engine"].config.setting
    <2>1. /\ file' = Saved(saves["engine"].config)
          /\ entries' = entries \cup {Saved(saves["engine"].config)}
          /\ saves'["service"].config = saves["service"].config
          /\ saves'["service"].at # "idle" => saves["service"].at # "idle"
          /\ NewSetting("engine") = new
      BY <1>1, <1>16, FileReplaced DEF EngineReplaces
    <2>2. Undoes("engine") /\ service' = service
      BY <1>16 DEF EngineReplaces, EngineRest
    <2>3. \/ promised' = promised /\ new >= promised
          \/ promised' = new /\ new < promised
      <3>1. \/ promised' = promised /\ ~(new < promised)
            \/ promised' = new /\ new < promised
        BY <2>1, <2>2, Zenon DEF Undoes
      <3> QED BY <1>1, <3>1
    <2>4. stored' => stored /\ ~(new < setting)
      BY <2>1, <2>2, Zenon DEF Undoes
    <2>5. /\ \A f \in entries' : f \in entries \/ f = Saved(saves["engine"].config)
          /\ Saved(saves["engine"].config).is = "whole" /\ Saved(saves["engine"].config).synced
          /\ Saved(saves["engine"].config).config = saves["engine"].config
          /\ new \in Nat
      BY <1>1, <2>1 DEF Saved
    <2>6. file' \in entries' /\ \A f \in entries' : f.synced /\ f.is # "torn"
      BY <1>3, <2>1, <2>5
    <2>7. promised' \in Nat /\ promised' <= promised /\ promised' <= new
      BY <1>1, <2>3, <2>5
    <2> HIDE DEF new
    <2>8. promised' > 0 => \A f \in entries' : f.is = "whole" /\ f.config.setting >= promised'
      <3>1. ASSUME promised' > 0 PROVE \A f \in entries : f.is = "whole" /\ f.config.setting >= promised'
        BY <1>1, <1>3, <2>7, <3>1 DEF Has
      <3>2. Saved(saves["engine"].config).config.setting >= promised'
        BY <2>5, <2>7 DEF new
      <3> QED BY <2>5, <3>1, <3>2
    <2>9. Running' => promised' <= setting'
      BY <1>1, <1>3, <1>4, <2>7
    <2>10. saves'["service"].at # "idle" => promised' <= saves'["service"].config.setting
      BY <1>1, <1>3, <2>1, <2>7
    <2>11. stored' => service' \in {"saved", "effect"}
                      /\ \A f \in entries' : f.is = "whole" /\ f.config.setting >= setting'
      <3>1. stored => service' \in {"saved", "effect"}
                      /\ \A f \in entries : f.is = "whole" /\ f.config.setting >= setting
        BY <1>3, <2>2 DEF Has
      <3>2. ~(new < setting) => Saved(saves["engine"].config).config.setting >= setting
        BY <1>1, <2>5 DEF new
      <3> QED BY <1>4, <2>4, <2>5, <3>1, <3>2
    <2> QED BY <2>6, <2>8, <2>9, <2>10, <2>11 DEF KeptPart, Has, Saving
  <1>17. CASE EngineSaved
    BY <1>1, <1>8, <1>9, <1>17 DEF EngineSaved, EngineRest
  <1>18. CASE EngineReopens \/ Shutdown
    <2>1. UNCHANGED storeVars /\ stored' = stored /\ promised' = promised /\ service' = service
      BY <1>18 DEF EngineReopens, Shutdown, EngineRest, StoreUnchanged, history
    <2> QED BY <1>3, <1>4, <2>1, FileUntouched DEF storeVars
  <1> QED BY <1>10, <1>11, <1>12, <1>13, <1>14, <1>15, <1>16, <1>17, <1>18 DEF Saves

(* Every other step.                                                         *)
LEMMA AnsweredKept ==
    ASSUME StoreInv, ~collided', Next
    PROVE  KeptPart'
  <1>1. /\ "service" \in Writers
        /\ saves \in [Writers -> [at : {"idle", "created", "written", "synced", "renamed"},
                                  config : AppConfig, name : Names]]
        /\ saves["service"].config.setting \in Nat
        /\ setting \in Nat /\ promised \in Nat
        /\ file \in File /\ \A f \in File : f.config.setting \in Nat
        /\ entries \in SUBSET File
        /\ Loaded(legacy).setting \in Nat /\ Loaded(legacy) \in AppConfig
    <2>1. StoreTypeOK /\ legacy \in AppConfig /\ legacy.setting = 0 /\ Bounded(Handled) /\ Handled \in Nat
      BY HandledFacts DEF StoreInv, ControlInv, Types, ServiceTypes, CountedPart
    <2>2. Loaded(legacy) \in AppConfig
      BY <2>1, LoadedIsConfig
    <2> QED BY StoreInvTypes, <2>2
  <1>2. /\ service = "saving" <=> saves["service"].at # "idle"
        /\ service \in {"down", "opening", "stopped"} => engine = "none"
    BY StoreInvTypes DEF Saving
  <1>3. /\ file \in entries /\ \A f \in entries : f.synced /\ f.is # "torn"
        /\ promised > 0 => Has(promised)
        /\ Running => promised <= setting
        /\ saves["service"].at # "idle" => promised <= saves["service"].config.setting
        /\ stored => service \in {"saved", "effect"} /\ Has(setting)
    BY DEF StoreInv, KeptPart, Saving
  <1>4. promised <= Loaded(legacy).setting
    <2>1. CASE promised > 0
      <3>1. file.is = "whole" /\ file.config.setting >= promised
        BY <1>3, <2>1 DEF Has
      <3>2. Loaded(legacy) = file.config
        BY <3>1 DEF Loaded
      <3> QED BY <1>1, <3>1, <3>2
    <2>2. CASE promised = 0
      BY <1>1, <2>2
    <2> QED BY <1>1, <2>1, <2>2
  <1>5. Idle.at = "idle"
    BY DEF Idle
  <1>6. CASE Start
    <2>1. /\ service = "down" /\ service' = "opening" /\ setting' = Loaded(legacy).setting
          /\ saves' = saves /\ stored' = stored /\ promised' = promised
      BY <1>6 DEF Start, Load, history
    <2>2. ~stored /\ saves'["service"].at = "idle"
      BY <1>2, <1>3, <2>1
    <2>3. promised > 0 => UNCHANGED <<file, entries>>
      <3>1. promised > 0 => file.is = "whole"
        BY <1>3 DEF Has
      <3> QED BY <1>6, <3>1 DEF Start, Load
    <2>4. file' \in entries' /\ \A f \in entries' : f.synced /\ f.is # "torn"
      <3>1. CASE file' = Absent /\ entries' = entries \cup {Absent}
        <4>1. Absent.synced /\ Absent.is # "torn"
          BY DEF Absent
        <4> QED BY <1>3, <3>1, <4>1
      <3>2. CASE UNCHANGED <<file, entries>>
        BY <1>3, <3>2
      <3> QED BY <1>6, <3>1, <3>2 DEF Start, Load
    <2>5. promised' > 0 => \A f \in entries' : f.is = "whole" /\ f.config.setting >= promised'
      BY <1>3, <2>1, <2>3 DEF Has
    <2>6. promised' <= setting'
      BY <1>4, <2>1
    <2>7. ~stored'
      BY <2>1, <2>2
    <2> QED BY <2>2, <2>4, <2>5, <2>6, <2>7 DEF KeptPart, Has, Saving
  <1>7. CASE StartFails \/ Opened \/ EffectBegins \/ ServiceEvent \/ HandleQuery
    <2>1. /\ UNCHANGED storeVars /\ stored' = stored /\ promised' = promised /\ setting' = setting
          /\ \/ service' = service
             \/ service = "opening" /\ service' = "idle"
             \/ service = "saved" /\ service' = "effect"
      BY <1>7 DEF StartFails, Opened, EffectBegins, ServiceEvent, HandleQuery, StoreUnchanged, history,
                  ServiceRest
    <2>2. Running' => Running
      BY <2>1 DEF Running
    <2>3. \/ stored' = FALSE
          \/ stored' = stored /\ setting' = setting /\ (service' = service \/ service' \in {"saved", "effect"})
      <3>1. CASE service = "opening"
        <4>1. ~stored
          BY <1>3, <3>1
        <4> QED BY <2>1, <4>1
      <3>2. CASE service # "opening"
        BY <2>1, <3>2
      <3> QED BY <3>1, <3>2
    <2> QED BY <1>3, <2>1, <2>2, <2>3, FileUntouched DEF storeVars
  <1>8. ASSUME NEW config, SaveBegins(config), promised <= config.setting, service = "idle",
               setting' \in {setting, setting + 1}, promised' = promised,
               stored' = FALSE \/ (stored' = stored /\ setting' = setting)
        PROVE  KeptPart'
    <2>1. /\ UNCHANGED <<file, entries>>
          /\ \/ \E name : saves' = [saves EXCEPT !["service"] = [at |-> "created", config |-> config, name |-> name]]
             \/ saves' = saves
          /\ service' \in {"saving", "saved"}
      BY <1>8 DEF SaveBegins, CreateTemporary, StoreUnchanged, storeVars
    <2>2. saves'["service"].at # "idle" => promised <= saves'["service"].config.setting
      BY <1>1, <1>3, <1>8, <2>1
    <2>3. ~stored
      BY <1>3, <1>8
    <2>4. stored' = FALSE
      BY <1>8, <2>3
    <2>5. promised <= setting'
      <3>1. promised <= setting
        BY <1>3, <1>8 DEF Running
      <3> QED BY <1>1, <1>8, <3>1
    <2> QED BY <1>8, <2>1, <2>2, <2>4, <2>5, FileUntouched
  <1>9. CASE HandleChange
    <2> DEFINE config == [setting |-> setting', token |-> token]
    <2>1. /\ service = "idle" /\ setting' = setting + 1 /\ SaveBegins(config)
          /\ stored' = FALSE /\ promised' = promised
      BY <1>9 DEF HandleChange, Take
    <2>2. config.setting = setting'
      OBVIOUS
    <2> HIDE DEF config
    <2>3. promised <= config.setting
      <3>1. promised <= setting
        BY <1>3, <2>1 DEF Running
      <3> QED BY <1>1, <2>1, <2>2, <3>1
    <2> QED BY <1>8, <2>1, <2>3
  <1>10. CASE HandleChoose
    <2>1. /\ service = "idle" /\ setting' = setting /\ stored' = stored /\ promised' = promised
      BY <1>10 DEF HandleChoose, Take
    <2>2. CASE StoreUnchanged /\ service' = "saved"
      <3>1. /\ promised <= setting'
            /\ \/ stored' = FALSE
               \/ stored' = stored /\ setting' = setting /\ (service' = service \/ service' \in {"saved", "effect"})
        BY <1>3, <2>1, <2>2 DEF Running
      <3> QED BY <1>3, <2>1, <2>2, <3>1, FileUntouched DEF StoreUnchanged, storeVars
    <2>3. CASE SaveBegins([Loaded(legacy) EXCEPT !.token = 0])
      <3>1. [Loaded(legacy) EXCEPT !.token = 0].setting = Loaded(legacy).setting
        BY <1>1 DEF AppConfig
      <3> QED BY <1>4, <1>8, <2>1, <2>3, <3>1
    <2> QED BY <1>10, <2>2, <2>3 DEF HandleChoose
  <1>11. CASE EffectEnds
    <2>1. /\ service = "effect" /\ service' = "idle" /\ setting' = setting /\ stored' = FALSE
          /\ UNCHANGED storeVars
      BY <1>11 DEF EffectEnds, StoreUnchanged
    <2>2. saves'["service"].at = "idle"
      BY <1>2, <2>1 DEF storeVars
    <2>3. promised' = promised \/ (promised' = setting /\ stored)
      <3>1. PICK q \in inHand : promised' = IF q.kind = "change" /\ stored THEN setting ELSE promised
        BY <1>11 DEF EffectEnds
      <3> QED BY <3>1, Zenon
    <2>4. CASE promised' = promised
      BY <1>3, <2>1, <2>2, <2>4, FileUntouched DEF storeVars, Running
    <2>5. CASE promised' = setting /\ stored
      <3>1. Has(setting)
        BY <1>3, <2>5
      <3>2. /\ file' \in entries' /\ \A f \in entries' : f.synced /\ f.is # "torn"
            /\ \A f \in entries' : f.is = "whole" /\ f.config.setting >= promised'
        BY <1>3, <2>1, <2>5, <3>1 DEF storeVars, Has
      <3>3. promised' <= setting'
        BY <1>1, <2>1, <2>5
      <3> QED BY <2>1, <2>2, <3>2, <3>3 DEF KeptPart, Has, Saving
    <2> QED BY <2>3, <2>4, <2>5
  <1>12. CASE Stops
    <2>1. /\ service \in {"opening", "idle"} /\ service' = "stopped"
          /\ UNCHANGED storeVars /\ promised' = promised /\ stored' = FALSE
      BY <1>12 DEF Stops, Gone, StoreUnchanged
    <2> QED BY <1>3, <2>1, FileUntouched DEF storeVars, Running
  <1>13. CASE Crashes
    <2>1. /\ service' = "down" /\ UNCHANGED <<file, entries>> /\ saves' = [w \in Writers |-> Idle]
          /\ promised' = promised /\ stored' = FALSE
      BY <1>13 DEF Crashes, Gone, Crash, ProcessDies
    <2>2. saves'["service"].at = "idle"
      BY <1>1, <1>5, <2>1
    <2> QED BY <2>1, <2>2, FileUntouched DEF Running
  <1>14. CASE PowerFails
    <2>1. /\ service' = "down" /\ saves' = [w \in Writers |-> Idle] /\ promised' = promised /\ stored' = FALSE
          /\ \E f \in entries : file' = Settled(f) /\ entries' = {Settled(f)}
      BY <1>14 DEF PowerFails, Gone, PowerLoss, ProcessDies
    <2>2. PICK f \in entries : file' = f /\ entries' = {f}
      BY <1>3, <2>1 DEF Settled
    <2>3. saves'["service"].at = "idle"
      BY <1>1, <1>5, <2>1
    <2>4. /\ file' \in entries' /\ \A g \in entries' : g.synced /\ g.is # "torn"
          /\ promised' > 0 => \A g \in entries' : g.is = "whole" /\ g.config.setting >= promised'
      BY <1>3, <2>1, <2>2 DEF Has
    <2> QED BY <2>1, <2>3, <2>4 DEF KeptPart, Has, Saving, Running
  <1>15. ASSUME NEW c \in Clients, TaskStep(c) \/ LinkStep(c) \/ UserStep(c) PROVE KeptPart'
    <2>1. UNCHANGED storeVars /\ UNCHANGED <<service, setting, stored, promised>>
      BY <1>15 DEF TaskStep, LinkStep, UserStep, StillService, history
    <2> QED BY <1>3, <2>1, FileUntouched DEF storeVars, Running
  <1>16. CASE Saves
    BY <1>16, SavesKeepAnswered
  <1> QED BY <1>6, <1>7, <1>9, <1>10, <1>11, <1>12, <1>13, <1>14, <1>15, <1>16 DEF Next, ServiceStep, Saves

(* What holds until two saves collide.                                       *)
UntilCollision == ControlInv /\ (~collided => StoreInv)

(* What was answered, in terms of the run's invariant.                       *)
LEMMA StoreInvImplies ==
    ASSUME UntilCollision
    PROVE  AnsweredChangesSurvive
  <1>1. StoreTypeOK /\ Handled \in Nat /\ setting <= Handled /\ promised <= Handled
        /\ setting \in Nat /\ promised \in Nat
    BY HandledFacts DEF UntilCollision, ControlInv, Types, CountedPart, ServiceTypes, HistoryTypes
  <1>2. Handled <= MaxSetting /\ MaxSetting \in Nat
    BY HandledFacts, StoreAssumption DEF UntilCollision, ControlInv, Types, HistoryTypes
  <1>3. setting \in 0..MaxSetting /\ promised \in 0..MaxSetting
    BY <1>1, <1>2
  <1>4. (service = "saving" <=> Saving("service")) /\ (engine = "saving" <=> Saving("engine"))
    BY DEF UntilCollision, ControlInv, SavingPart
  <1>5. ("service" \in Writers /\ service = "saving") = Saving("service")
    <2>1. "service" \in Writers
      BY ControlAssumption
    <2> QED BY <1>4, <2>1, Zenon DEF Saving
  <1>6. (engine = "saving") = Saving("engine")
    BY <1>4, Zenon DEF Saving
  <1>7. /\ service \in {"down", "opening", "idle", "saving", "saved", "effect", "stopped"}
        /\ engine \in {"none", "opening", "saving", "running"}
        /\ task \in [Clients -> {"none", "accepted", "loop", "waiting"}]
        /\ link \in [Clients -> {"connecting", "connected", "gone"}]
        /\ outcome \in [Requests -> {"unsent", "waiting", "ok", "error", "lost"}]
        /\ stored \in BOOLEAN /\ Len(requests) <= RequestCapacity
    BY DEF UntilCollision, ControlInv, Types, ServiceTypes, IpcTypes, ClientTypes, HistoryTypes
  <1>8. TypeOK
    BY <1>1, <1>3, <1>5, <1>6, <1>7 DEF TypeOK
  <1>9. ASSUME ~collided, NEW f \in entries \cup {file}
        PROVE  Settled(f).is # "torn" /\ (promised > 0 => f.is = "whole" /\ f.config.setting >= promised)
    <2>1. StoreInv
      BY <1>9 DEF UntilCollision
    <2>2. f \in entries
      BY <2>1 DEF StoreInv, KeptPart
    <2> QED BY <2>1, <2>2 DEF StoreInv, KeptPart, Settled, Has
  <1> QED BY <1>8, <1>9 DEF AnsweredChangesSurvive

(* Two saves that have collided stay so.                                     *)
LEMMA CollisionLasts ==
    ASSUME ControlInv, [Next]_vars, collided
    PROVE  collided'
  <1>1. CASE UNCHANGED storeVars
    BY <1>1 DEF storeVars
  <1>2. ASSUME NEW w \in Writers, NEW config,
               CreateTemporary(w, config) \/ SaveStep(w) \/ Replace(w) \/ SyncDirectory(w) \/ SaveFails(w)
        PROVE  collided'
    BY <1>2, Zenon DEF CreateTemporary, SaveStep, WriteTemporary, SyncTemporary, Replace, SyncDirectory,
       SaveFails
  <1>3. "service" \in Writers /\ "engine" \in Writers
    BY ControlAssumption
  <1>4. CASE Start \/ Crashes \/ PowerFails
    BY <1>4, Zenon DEF Start, Load, Crashes, PowerFails, Crash, PowerLoss, ProcessDies
  <1>5. CASE HandleQuery \/ HandleChange \/ HandleChoose
    <2>1. UNCHANGED storeVars \/ \E config : CreateTemporary("service", config)
      BY <1>5 DEF HandleQuery, HandleChange, HandleChoose, SaveBegins, StoreUnchanged
    <2> QED BY <1>1, <1>2, <1>3, <2>1
  <1>6. CASE Saves
    <2>1. \/ UNCHANGED storeVars
          \/ \E w \in Writers : \E config :
                CreateTemporary(w, config) \/ SaveStep(w) \/ Replace(w) \/ SyncDirectory(w) \/ SaveFails(w)
      BY <1>3, <1>6 DEF Saves, ServiceSaves, ServiceReplaces, ServiceSaved, ServiceSaveFails, Granted,
                        EngineSaves, EngineReplaces, EngineSaved, EngineReopens, Shutdown, StoreUnchanged
    <2> QED BY <1>1, <1>2, <2>1
  <1>7. CASE StartFails \/ Opened \/ EffectBegins \/ EffectEnds \/ ServiceEvent \/ Stops
    <2>1. UNCHANGED storeVars
      BY <1>7 DEF StartFails, Opened, EffectBegins, EffectEnds, ServiceEvent, Stops, StoreUnchanged
    <2> QED BY <1>1, <2>1
  <1>8. ASSUME NEW c \in Clients, TaskStep(c) \/ LinkStep(c) \/ UserStep(c) PROVE UNCHANGED storeVars
    BY <1>8, ConnectionsRest
  <1>9. CASE UNCHANGED vars
    BY <1>9 DEF vars, storeVars
  <1> QED BY <1>1, <1>4, <1>5, <1>6, <1>7, <1>8, <1>9 DEF Next, ServiceStep, Saves

(* Until two saves collide, each step keeps what was answered.               *)
LEMMA UntilCollisionHolds == Spec => []UntilCollision
  <1>1. Init => StoreInv
    <2>1. ASSUME Init PROVE StoreInv
      <3>1. ControlInv
        BY <2>1, ControlInit
      <3>2. /\ file \in {Absent, Foreign, Saved(Default)} /\ entries = {file}
            /\ saves = [w \in Writers |-> Idle] /\ promised = 0 /\ stored = FALSE
            /\ service = "down" /\ "service" \in Writers
        BY <2>1, ControlAssumption DEF Init, StoreInit
      <3>3. \A w \in Writers : saves[w].at = "idle"
        BY <3>2 DEF Idle
      <3>4. file.synced /\ file.is # "torn"
        BY <3>2 DEF Absent, Foreign, Saved
      <3> QED BY <3>1, <3>2, <3>3, <3>4 DEF StoreInv, TemporaryPart, KeptPart, At, Saving, Running
    <2> QED BY <2>1
  <1>2. UntilCollision /\ [Next]_vars => UntilCollision'
    <2> SUFFICES ASSUME UntilCollision, [Next]_vars PROVE UntilCollision'
      OBVIOUS
    <2>1. ControlInv'
      BY ControlNext DEF UntilCollision
    <2>2. ASSUME ~collided' PROVE StoreInv'
      <3>1. StoreInv
        BY <2>2, CollisionLasts DEF UntilCollision
      <3>2. CASE Next
        BY <2>1, <2>2, <3>1, <3>2, TemporariesKept, AnsweredKept DEF StoreInv
      <3>3. CASE UNCHANGED vars
        <4>1. TemporaryPart' /\ KeptPart'
          BY <3>1, <3>3 DEF StoreInv, TemporaryPart, KeptPart, Has, At, Temporary, Saving, Running,
                      vars, storeVars, serviceVars, history
        <4> QED BY <2>1, <4>1 DEF StoreInv
      <3> QED BY <3>2, <3>3
    <2> QED BY <2>1, <2>2 DEF UntilCollision
  <1>3. StoreInv => UntilCollision
    BY DEF StoreInv, UntilCollision
  <1> QED BY <1>1, <1>2, <1>3, PTL DEF Spec

(* What was promised, the last change that was saved and answered Ok and     *)
(* that no save of a restore token has undone since, is in the file and in   *)
(* whatever a crash or a loss of power leaves of it; and no such file is     *)
(* ever torn: save syncs the temporary file before it renames it and writes  *)
(* it under a name of its own, and load never replaces a file that parses    *)
(* (src/config.rs, src/service/runtime.rs).  It holds up to the moment at    *)
(* which a save whose directory sync failed removes the other task's         *)
(* temporary file, and not beyond: FileStaysWhole.                           *)
THEOREM AnsweredChangesLast == Spec => []AnsweredChangesSurvive
  <1>1. UntilCollision => AnsweredChangesSurvive
    BY StoreInvImplies
  <1> QED BY <1>1, UntilCollisionHolds, PTL

(* How far that exception goes: an answered change is undone by nothing but  *)
(* the rename of a restore token's save, and only if that save loaded the    *)
(* configuration before the change was in it (src/service/runtime.rs:578).   *)
THEOREM OnlyTokensUndo == Spec => OnlyTokenSavesUndo
  <1> DEFINE Extent == promised' < promised /\ ~collided' =>
                           EngineReplaces /\ saves["engine"].config.setting = promised'
  <1>1. UntilCollision /\ [Next]_vars => Extent
    <2> SUFFICES ASSUME UntilCollision, [Next]_vars, promised' < promised, ~collided'
                 PROVE  EngineReplaces /\ saves["engine"].config.setting = promised'
      OBVIOUS
    <2>1. StoreInv
      BY CollisionLasts DEF UntilCollision
    <2>2. /\ promised \in Nat /\ "engine" \in Writers /\ setting \in Nat
          /\ service = "effect" => promised <= setting
      BY <2>1, StoreInvTypes DEF StoreInv, KeptPart, Running
    <2>3. promised' # promised
      BY <2>2
    <2>4. CASE EngineReplaces
      <3>1. NewSetting("engine") = saves["engine"].config.setting
        BY <2>1, <2>2, <2>4, FileReplaced DEF EngineReplaces
      <3>2. promised' = NewSetting("engine")
        BY <2>3, <2>4, Zenon DEF EngineReplaces, Undoes
      <3> QED BY <2>4, <3>1, <3>2
    <2>5. CASE EffectEnds
      <3>1. promised' = promised \/ promised' = setting
        <4>1. PICK q \in inHand : promised' = IF q.kind = "change" /\ stored THEN setting ELSE promised
          BY <2>5 DEF EffectEnds
        <4> QED BY <4>1, Zenon
      <3>2. promised <= setting
        BY <2>2, <2>5 DEF EffectEnds
      <3> QED BY <2>2, <2>3, <3>1, <3>2
    <2>6. CASE ~EngineReplaces /\ ~EffectEnds
      <3>1. promised' = promised
        <4>1. CASE Start \/ StartFails \/ HandleQuery \/ HandleChange \/ HandleChoose \/ Opened
                   \/ EffectBegins \/ ServiceEvent \/ Stops \/ Crashes \/ PowerFails
          BY <4>1, Zenon DEF Start, StartFails, HandleQuery, HandleChange, HandleChoose, Opened, EffectBegins,
             ServiceEvent, Stops, Crashes, PowerFails, history
        <4>2. CASE Saves
          BY <2>6, <4>2, Zenon DEF Saves, ServiceSaves, ServiceReplaces, ServiceSaved, ServiceSaveFails, Granted,
             EngineSaves, EngineSaved, EngineReopens, EngineRest, Shutdown, history
        <4>3. ASSUME NEW c \in Clients, TaskStep(c) \/ LinkStep(c) \/ UserStep(c) PROVE promised' = promised
          BY <4>3, Zenon DEF TaskStep, LinkStep, UserStep, StillService, history
        <4>4. CASE UNCHANGED vars
          BY <4>4, Zenon DEF vars, history
        <4> QED BY <2>6, <4>1, <4>2, <4>3, <4>4 DEF Next, ServiceStep, Saves
      <3> QED BY <2>3, <3>1
    <2> QED BY <2>4, <2>5, <2>6
  <1>2. UntilCollision /\ [Next]_vars => [Extent]_vars
    BY <1>1
  <1> QED BY <1>2, UntilCollisionHolds, PTL DEF Spec, OnlyTokenSavesUndo
=============================================================================
