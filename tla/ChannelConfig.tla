--------------------------- MODULE ChannelConfig ---------------------------
(***************************************************************************)
(* A channel's row in channel_configs (channel/config.go): the mode that   *)
(* decides which messages are heeded, and the rest of its columns, the     *)
(* prompt, the tools and the approval, of which the model keeps when they  *)
(* were saved.  A slash command changes the mode (api/slack.go), the web   *)
(* UI all of it (api/config.go).                                           *)
(***************************************************************************)
EXTENDS Naturals

CONSTANTS
  NoConfig,   (* the channel has no row                                    *)
  Modes,      (* the modes that people set                                 *)
  MaxChanges  (* bound: commands and saves                                 *)

ASSUME ConfigAssumption ==
  /\ Modes \subseteq {"mention_only", "all_messages"} /\ Modes # {}
  /\ MaxChanges \in Nat
  /\ NoConfig \notin [mode : Modes, rest : 0 .. MaxChanges + 1]

VARIABLES
  config,    (* the row                                                    *)
  command,   (* slash commands at work: the row read, the mode to set      *)
  saved,     (* history: what the UI saved last, besides the mode          *)
  clobbered, (* history: the UI saved while a command was at work          *)
  changes

settings == <<config, command, saved, clobbered, changes>>

(* A channel nobody configured yet, or one that the UI saved before.       *)
ConfigNew   == config = NoConfig /\ saved = 0
ConfigSaved == saved = 1 /\ \E mode \in Modes : config = [mode |-> mode, rest |-> saved]
ConfigInit  == (ConfigNew \/ ConfigSaved) /\ command = {} /\ clobbered = FALSE /\ changes = 0

(* EffectiveRespondMode, of a row that may be missing.                     *)
RespondMode(row) == IF row = NoConfig THEN "mention_only" ELSE row.mode

Change == changes < MaxChanges /\ changes' = changes + 1

(* handleSlackCommand reads the row (GetConfig) ...                        *)
ReadConfig(mode) ==
  /\ command = {} /\ Change
  /\ command' = {[row |-> config, mode |-> mode]}
  /\ UNCHANGED <<config, saved, clobbered>>

(* Wrong: the command writes a row of its own.                             *)
SlipChanged(row, mode) == [mode |-> mode, rest |-> 0]

(* The row that was read, or a new one, with the mode.                     *)
Changed(row, mode) == [mode |-> mode, rest |-> IF row = NoConfig THEN 0 ELSE row.rest]

(* ... and writes all of its columns (UpsertConfig).                       *)
UpsertConfig ==
  /\ command # {}
  /\ \E c \in command : config' = Changed(c.row, c.mode)
  /\ command' = {}
  /\ UNCHANGED <<saved, clobbered, changes>>

(* The command ends between the two, with the process.                     *)
EndCommand == command' = {} /\ UNCHANGED <<config, saved, clobbered, changes>>

DeleteConfig == config' = NoConfig /\ saved' = 0

(* handlePutChannelConfig: all of the row, or, when the prompt is empty,   *)
(* no row.                                                                 *)
PutConfig ==
  /\ Change
  /\ \/ /\ saved' = changes + 2
        /\ \E mode \in Modes : config' = [mode |-> mode, rest |-> saved']
     \/ DeleteConfig
  /\ clobbered' = (clobbered \/ command # {})
  /\ UNCHANGED command

ConfigStep == (\E mode \in Modes : ReadConfig(mode)) \/ UpsertConfig \/ PutConfig

ConfigTypeOK ==
  /\ config = NoConfig \/ config \in [mode : Modes, rest : 0 .. MaxChanges + 1]
  /\ \A c \in command : c.mode \in Modes
  /\ saved \in 0 .. MaxChanges + 1 /\ clobbered \in BOOLEAN
  /\ changes \in 0 .. MaxChanges

(* A slash command changes the mode and nothing else: what the UI saved    *)
(* last stays as it was saved, or deleted, unless that happened between    *)
(* the read and the write of a command (api/slack.go:120-130).             *)
CommandKeepsConfig ==
  clobbered \/ (IF config = NoConfig THEN saved = 0 ELSE config.rest = saved)
=============================================================================
