------------------------------- MODULE ConfigStore -------------------------------
(***************************************************************************)
(* The device's configuration (config_store.c) and the ways its four texts *)
(* are copied about: out of a submitted form (web_portal.c), into the form *)
(* (html_escape) and into the Wi-Fi driver (wifi.c).  Every copy goes to a *)
(* buffer of some size, so a text is what those copies tell apart: its     *)
(* length, the first character config_validate rejects, and how many bytes *)
(* of HTML one of its characters takes.                                    *)
(***************************************************************************)
EXTENDS Naturals

Fields == {"ssid", "pass", "host", "token"}

\* CONFIG_*_MAX_LEN; the buffers of device_config_t hold one more, the NUL.
MaxLen == [ssid |-> 32, pass |-> 64, host |-> 63, token |-> 64]

\* The longest body POST /save reads.
MaxFormBody == 2048

\* sizeof(wifi_config.sta.ssid) and sizeof(wifi_config.sta.password).
StaSize == [ssid |-> 32, pass |-> 64]

\* bad: the position of the first character that is rejected, 0 if there is none.
Text   == [len: Nat, bad: Nat, width: 1..6]
Config == [Fields -> Text]
Empty  == [len |-> 0, bad |-> 0, width |-> 1]

\* A field of a form: what it decodes to, unless url_decode fails or it is absent.
Raw  == [text: Text, decodes: BOOLEAN]
Form == [fields: [Fields -> Raw], size: Nat]

-------------------------------------------------------------------------------
\* strlcpy into a buffer of that size.
Copied(t, size) ==
  IF t.len < size THEN t
  ELSE [t EXCEPT !.len = size - 1, !.bad = IF @ < size THEN @ ELSE 0]

\* parse_form: a field that does not decode keeps its default.
Parsed(form) ==
  [f \in Fields |-> LET raw == form.fields[f] IN
                    IF raw.decodes THEN Copied(raw.text, MaxLen[f] + 1) ELSE Empty]

LengthOK(cfg, f) == cfg[f].len <= MaxLen[f] /\ (f # "pass" => cfg[f].len > 0)

\* The characters of a password are not looked at.
Valid(cfg) == \A f \in Fields : LengthOK(cfg, f) /\ (f # "pass" => cfg[f].bad = 0)

\* What wifi_start_sta hands to the driver.
StaConfig(cfg) == [f \in {"ssid", "pass"} |-> Copied(cfg[f], StaSize[f])]

-------------------------------------------------------------------------------
\* send_form's buffer for a field, and how much of a text html_escape puts there:
\* it stops where the widest replacement might not fit.
ShortOfNul(f) == MaxLen[f] * 6   \* mutant: no byte for the NUL

EscapeSize(f) == MaxLen[f] * 6 + 1

Shown(t, size) ==
  IF t.len = 0 \/ (t.len - 1) * t.width + 6 < size THEN t.len
  ELSE CHOOSE n \in 0..t.len - 1 : n * t.width + 6 >= size
                                   /\ \A k \in 0..n - 1 : k * t.width + 6 < size
===============================================================================
