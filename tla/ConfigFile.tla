------------------------------ MODULE ConfigFile ------------------------------
(***************************************************************************)
(* Reading the ini file: config_load_from_string of config.c.  A value is  *)
(* its length and what atoi makes of it; a key is <<section, name>>.  A    *)
(* line is what the tests of the loop see of it.                           *)
(***************************************************************************)
EXTENDS Integers, Sequences, SequencesExt

(* The text fields and the bytes of each. *)
LongText == {<<"ota", "url">>, <<"server", "url">>, <<"server", "token">>}
TextField ==
    LongText \cup
    {<<"ota", "accept_language">>, <<"ota", "app_version">>, <<"ota", "elf_sha256">>,
     <<"device", "device_id">>, <<"device", "client_id">>,
     <<"board", "type">>, <<"board", "name">>, <<"board", "ssid">>,
     <<"audio", "capture_device">>, <<"audio", "playback_device">>, <<"runtime", "log_level">>}
TextSize == [k \in TextField |-> IF k \in LongText THEN 256
                                 ELSE IF k = <<"ota", "elf_sha256">> THEN 96
                                 ELSE IF k = <<"ota", "accept_language">> THEN 32
                                 ELSE IF k = <<"runtime", "log_level">> THEN 16
                                 ELSE 64]

(* The fields read with atoi. *)
IntField ==
    {<<"server", "protocol_version">>, <<"board", "rssi">>, <<"audio", "input_sample_rate">>,
     <<"audio", "silence_timeout_ms">>, <<"audio", "silence_threshold">>,
     <<"audio", "max_utterance_ms">>, <<"runtime", "reconnect_backoff_ms">>}

Text(len) == [len |-> len, atoi |-> 0]

(* The devices are "default", the log level is "info", other texts are     *)
(* empty; rssi, the one number left, is 0.                                 *)
Default(k) ==
    IF k \in {<<"audio", "capture_device">>, <<"audio", "playback_device">>} THEN Text(7)
    ELSE IF k = <<"runtime", "log_level">> THEN Text(4)
    ELSE IF k \in TextField THEN Text(0)
    ELSE IF k = <<"server", "protocol_version">> THEN 1
    ELSE IF k = <<"audio", "input_sample_rate">> THEN 16000
    ELSE IF k = <<"audio", "silence_timeout_ms">> THEN 1200
    ELSE IF k = <<"audio", "silence_threshold">> THEN 500
    ELSE IF k = <<"audio", "max_utterance_ms">> THEN 15000
    ELSE IF k = <<"runtime", "reconnect_backoff_ms">> THEN 3000
    ELSE 0

config_apply_defaults == [k \in TextField \cup IntField |-> Default(k)]

(* snprintf into a field: what does not fit is cut. *)
copy_str(size, v) == IF v.len < size THEN v ELSE [v EXCEPT !.len = size - 1]

ReadAs(k, v) == IF k \in IntField THEN v.atoi ELSE copy_str(TextSize[k], v)

(* A key that no section knows changes nothing. *)
config_assign_value(cfg, section, name, v) ==
    LET k == <<section, name>>
    IN  IF k \in DOMAIN cfg THEN [cfg EXCEPT ![k] = ReadAs(k, v)] ELSE cfg

Required == {<<"ota", "url">>, <<"ota", "app_version">>,
             <<"board", "type">>, <<"board", "name">>}

config_validate(cfg) == /\ \A k \in Required : cfg[k].len > 0
                        /\ cfg[<<"server", "protocol_version">>] > 0

-----------------------------------------------------------------------------
(* A trimmed line: its first character, whether a "]" and a "=" occur, the *)
(* name in the brackets or before the "=", and the value after it.         *)

Skipped(l) == l.first \in {"none", "#", ";"}
IsHeader(l) == l.first = "["
Broken(l) == IsHeader(l) /\ ~l.close
Assigns(l) == ~Skipped(l) /\ ~IsHeader(l) /\ l.eq

(* Mutant: a header that is no known section is passed over. *)
TakeLine_KnownOnly(st, l) ==
    IF st.broken \/ Skipped(l) THEN st
    ELSE IF Broken(l) THEN [st EXCEPT !.broken = TRUE]
    ELSE IF IsHeader(l)
    THEN IF \E k \in DOMAIN st.cfg : k[1] = l.name THEN [st EXCEPT !.section = l.name] ELSE st
    ELSE IF l.eq THEN [st EXCEPT !.cfg = config_assign_value(st.cfg, st.section, l.name, l.value)]
    ELSE st

(* One turn of the loop; a broken header ends it. *)
TakeLine(st, l) ==
    IF st.broken \/ Skipped(l) THEN st
    ELSE IF Broken(l) THEN [st EXCEPT !.broken = TRUE]
    ELSE IF IsHeader(l) THEN [st EXCEPT !.section = l.name]
    ELSE IF l.eq THEN [st EXCEPT !.cfg = config_assign_value(st.cfg, st.section, l.name, l.value)]
    ELSE st

config_load_from_string(lines) ==
    LET end == FoldLeft(TakeLine,
                        [broken |-> FALSE, section |-> "", cfg |-> config_apply_defaults],
                        lines)
    IN  [rc |-> IF ~end.broken /\ config_validate(end.cfg) THEN 0 ELSE -1, cfg |-> end.cfg]

-----------------------------------------------------------------------------
(* What a reader of the file expects.                                      *)

(* The section line i belongs to: the name of the last header above it. *)
SectionOf(lines, i) ==
    LET above == {j \in 1..(i - 1) : IsHeader(lines[j])}
    IN  IF above = {} THEN "" ELSE lines[CHOOSE j \in above : \A h \in above : h <= j].name

Setting(lines, k) ==
    {i \in DOMAIN lines : Assigns(lines[i]) /\ <<SectionOf(lines, i), lines[i].name>> = k}

Expected(lines, k) ==
    LET set == Setting(lines, k)
    IN  IF set = {} THEN config_apply_defaults[k]
        ELSE ReadAs(k, lines[CHOOSE i \in set : \A j \in set : j <= i].value)

(* A file without a broken header gives every field the last value written *)
(* for it in its own section, cut to the field, or its default: whatever   *)
(* comments, unknown sections, repeated sections and stray lines come in   *)
(* between (config_load_from_string, config_assign_value).                 *)
LoadsTheLastValue(lines) ==
    (~\E i \in DOMAIN lines : Broken(lines[i])) =>
        LET got == config_load_from_string(lines).cfg
        IN  \A k \in DOMAIN got : got[k] = Expected(lines, k)

(* A file is accepted exactly when its headers are closed and the last     *)
(* values it gives the fields that config_validate looks at pass its       *)
(* checks: an earlier good value does not help a later bad one, nor the    *)
(* other way round, and an emptied or unreadable value counts as missing.  *)
(* No other field is checked.                                              *)
AcceptsTheChecked(lines) ==
    (config_load_from_string(lines).rc = 0)
    <=> /\ ~\E i \in DOMAIN lines : Broken(lines[i])
        /\ \A k \in Required : Expected(lines, k).len > 0
        /\ Expected(lines, <<"server", "protocol_version">>) > 0

(* What the first design asks of config_validate beyond that: version 1 of *)
(* the protocol and no other, and a name for both audio devices.           *)
RefusesAsDesigned(lines) ==
    LET loaded == config_load_from_string(lines)
    IN  loaded.rc = 0 =>
            /\ loaded.cfg[<<"server", "protocol_version">>] = 1
            /\ loaded.cfg[<<"audio", "capture_device">>].len > 0
            /\ loaded.cfg[<<"audio", "playback_device">>].len > 0
=============================================================================
