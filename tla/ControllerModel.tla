--------------------------- MODULE ControllerModel ---------------------------
(***************************************************************************)
(* ControllerModel of src/control/model.rs as values: what each operation    *)
(* makes of the model and which effect it asks for, with the validation of a *)
(* configuration (src/config.rs) and of an update (logig560-api).  Service   *)
(* runs the operations with one colour for the four zones; here the zones    *)
(* are separate.                                                             *)
(*                                                                          *)
(* The restore token, the diagnostics and the health states that no          *)
(* operation changes are left out.  A revision is a u64: RevisionMax is its  *)
(* largest value.                                                            *)
(***************************************************************************)
EXTENDS Zones, Integers, Sequences, FiniteSets

CONSTANT RevisionMax
ASSUME RevisionMaxAssumption == RevisionMax \in Nat \ {0}

CONFIG_VERSION == 2
Bytes == 0..255
Rgb == [r : Bytes, g : Bytes, b : Bytes]
BlackRgb == [r |-> 0, g |-> 0, b |-> 0]
AllDark == [zone \in ZoneIds |-> BlackRgb]
ManualZones == [zone : ZoneIds, color : Rgb, brightness : Bytes]

Configs == [version : Nat, lights : BOOLEAN, mode : {"manual", "content"},
            zones : [1..4 -> ManualZones], setup : BOOLEAN]

-----------------------------------------------------------------------------
(* AppConfig::validate.                                                      *)
ValidationError(kind) == [is |-> "error", kind |-> kind]
Valid == [is |-> "ok"]
ZoneCount(config, zone) == Cardinality({i \in 1..4 : config.zones[i].zone = zone})

Validate(config) ==
    IF config.version # CONFIG_VERSION THEN ValidationError("version")
    ELSE IF \E zone \in ZoneIds : ZoneCount(config, zone) # 1 THEN ValidationError("zones")
    ELSE IF \E i \in 1..4 : config.zones[i].brightness > 100 THEN ValidationError("brightness")
    ELSE Valid

DefaultZone(zone) ==
    [zone |-> zone, color |-> [r |-> 20, g |-> 200, b |-> 244], brightness |-> 100]
DefaultConfig ==
    [version |-> CONFIG_VERSION, lights |-> TRUE, mode |-> "manual",
     zones |-> [i \in 1..4 |-> DefaultZone(ZONES[i])],
     setup |-> FALSE]

(* validate_manual_updates: the first update that offends is reported, its   *)
(* brightness before its zone.                                               *)
Repeats(updates, i) == \E j \in 1 .. i - 1 : updates[j].zone = updates[i].zone
Offends(updates, i) == updates[i].brightness > 100 \/ Repeats(updates, i)

ValidateManualUpdates(updates) ==
    LET offending == {i \in DOMAIN updates : Offends(updates, i)}
        first == CHOOSE i \in offending : \A j \in offending : i <= j
    IN IF updates = <<>> THEN ValidationError("empty")
       ELSE IF offending = {} THEN Valid
       ELSE IF updates[first].brightness > 100 THEN ValidationError("brightness")
       ELSE ValidationError("duplicate")

-----------------------------------------------------------------------------
(* scale: a channel is computed in 16 bits and capped at 8.                  *)
ScaledProduct(value, brightness) == value * brightness + 50
ScaledChannel(value, brightness) ==
    LET scaled == ScaledProduct(value, brightness) \div 100
    IN IF scaled > 255 THEN 255 ELSE scaled
Scale(color, brightness) ==
    [r |-> ScaledChannel(color.r, brightness), g |-> ScaledChannel(color.g, brightness),
     b |-> ScaledChannel(color.b, brightness)]

(* manual_setting panics on a configuration without the zone.                *)
ManualSetting(config, zone) == config.zones[CHOOSE i \in 1..4 : config.zones[i].zone = zone]
ManualTarget(config) ==
    IF ~config.lights THEN AllDark
    ELSE [zone \in ZoneIds |->
        Scale(ManualSetting(config, zone).color, ManualSetting(config, zone).brightness)]

-----------------------------------------------------------------------------
(* The model.                                                                *)
Health == {"starting", "unknown", "ready", "failed"}
Models == [config : Configs, confirmed : [ZoneIds -> Rgb], pending : BOOLEAN,
           revision : 0..RevisionMax, writer : Health]

NewModel(config) ==
    [config |-> config, confirmed |-> AllDark, pending |-> FALSE,
     revision |-> 0, writer |-> "unknown"]

AdvancedRevision(revision) == IF revision = RevisionMax THEN 0 ELSE revision + 1
Advance(model) == [model EXCEPT !.revision = AdvancedRevision(model.revision)]
AdvanceIf(model, changed) == IF changed THEN Advance(model) ELSE model

NoWrite == [is |-> "NoWrite"]
WriteEffect(colors) == [is |-> "Write", colors |-> colors]
StartContentAware == [is |-> "StartContentAware"]
StopContentAwareAndWrite(colors) == [is |-> "StopContentAwareAndWrite", colors |-> colors]
PriorityBlackout == [is |-> "PriorityBlackout"]

(* apply_manual_updates; each zone is named once, by the configuration and   *)
(* by the updates.                                                           *)
Naming(updates, zone) == {k \in DOMAIN updates : updates[k].zone = zone}
UpdatedZones(zones, updates) ==
    [i \in 1..4 |-> LET named == Naming(updates, zones[i].zone)
                    IN IF named = {} THEN zones[i] ELSE updates[CHOOSE k \in named : TRUE]]
WithZones(model, zones) ==
    AdvanceIf([model EXCEPT !.config.zones = zones], zones # model.config.zones)

ApplyManualUpdates(model, updates) ==
    LET updated == WithZones(model, UpdatedZones(model.config.zones, updates))
    IN IF ValidateManualUpdates(updates) # Valid
       THEN [model |-> model, effect |-> ValidateManualUpdates(updates)]
       ELSE IF model.config.mode = "content"
       THEN [model |-> model, effect |-> ValidationError("mode")]
       ELSE [model |-> updated,
             effect |-> IF model.config.lights
                        THEN WriteEffect(ManualTarget(updated.config)) ELSE NoWrite]

SetMode(model, mode) ==
    IF model.config.mode = mode THEN [model |-> model, effect |-> NoWrite]
    ELSE [model |-> Advance([model EXCEPT !.config.mode = mode]),
          effect |-> IF ~model.config.lights THEN NoWrite
                     ELSE IF mode = "content" THEN StartContentAware
                     ELSE StopContentAwareAndWrite(ManualTarget(model.config))]

SetLightsEnabled(model, enabled) ==
    LET switched == Advance([model EXCEPT !.config.lights = enabled])
    IN IF model.config.lights = enabled THEN [model |-> model, effect |-> NoWrite]
       ELSE [model |-> switched,
             effect |-> IF ~enabled THEN PriorityBlackout
                        ELSE IF model.config.mode = "content" THEN StartContentAware
                        ELSE WriteEffect(ManualTarget(switched.config))]

MarkPending(model) ==
    [model |-> AdvanceIf([model EXCEPT !.pending = TRUE], ~model.pending), effect |-> NoWrite]

ConfirmWrite(model, colors) ==
    [model |-> AdvanceIf([model EXCEPT !.confirmed = colors, !.pending = FALSE,
                                       !.writer = "ready"],
                         model.confirmed # colors \/ model.pending \/ model.writer # "ready"),
     effect |-> NoWrite]

RecordFailure(model) ==
    [model |-> AdvanceIf([model EXCEPT !.writer = "failed"], model.writer # "failed"),
     effect |-> NoWrite]

MarkSetupComplete(model) ==
    [model |-> AdvanceIf([model EXCEPT !.config.setup = TRUE], ~model.config.setup),
     effect |-> NoWrite]

(* What an operation can make of the model.                                  *)
Outcomes(model) ==
    {ApplyManualUpdates(model, updates) : updates \in Seq(ManualZones)}
    \cup {SetMode(model, mode) : mode \in {"manual", "content"}}
    \cup {SetLightsEnabled(model, enabled) : enabled \in BOOLEAN}
    \cup {ConfirmWrite(model, colors) : colors \in [ZoneIds -> Rgb]}
    \cup {MarkPending(model), RecordFailure(model), MarkSetupComplete(model)}

(* snapshot, but for the revision.                                           *)
SnapshotBody(model) ==
    [lights |-> model.config.lights, mode |-> model.config.mode,
     manual |-> [zone \in ZoneIds |-> ManualSetting(model.config, zone)],
     pending |-> model.pending, writer |-> model.writer,
     confirmed |-> model.confirmed, setup |-> model.config.setup]
ModelSnapshot(model) == [revision |-> model.revision, body |-> SnapshotBody(model)]
=============================================================================
