---------------------------- MODULE ConfigStore ----------------------------
(***************************************************************************)
(* The settings in flash: user_config.c keeps them in one sector that it   *)
(* erases and writes again, the last field telling that all was written,   *)
(* and loads them back after every change; mb_app_config.c keeps the       *)
(* measurements' settings in another, under a header with their checksum,  *)
(* written last.  Any flash operation may fail and the power may go        *)
(* between any two, or inside a write.                                     *)
(***************************************************************************)
EXTENDS Sequences

CONSTANT Values   \* what can be set; "defaults" is another

Settings == Values \cup {"defaults"}

VARIABLES
  ram, flash,           \* user_configuration, and its sector: blank, torn or settings
  app_ram, app_valid,   \* user_app_config_data, user_app_config_data_valid
  app_data, app_head,   \* its sector: the data, and what the header is the checksum of
  todo,                 \* the flash operations the handler still has before it
  asked,                \* what the request asks to be stored
  error,                \* the handler has an error to answer
  untold,               \* an operation failed that the answer does not tell
  answer                \* of the last request

vars == <<ram, flash, app_ram, app_valid, app_data, app_head, todo, asked, error, untold, answer>>

(* user_config_load finds the last field; user_app_config_load the         *)
(* header's validity and the checksum.                                     *)
Loads == flash \in Settings
AppLoads == app_data = app_head /\ app_data \in Values

Boots == <<"load", "app_load">>

Init ==
  /\ flash \in {"blank"} \cup Settings
  /\ app_data \in {"blank"} \cup Values /\ app_head = app_data
  /\ ram = "off" /\ app_ram = "zeros" /\ app_valid = FALSE
  /\ todo = Boots
  /\ asked = "nothing" /\ error = FALSE /\ untold = FALSE /\ answer = "none"

UserSide == <<ram, flash>>
AppSide == <<app_ram, app_valid, app_data, app_head>>

\* The step done was the last of a request: it is answered.
Done ==
  answer' = IF todo' # <<>> \/ asked = "nothing" THEN answer
            ELSE IF error' THEN "error" ELSE "ok"

(* What a POST of settings does: its values go into the configuration at   *)
(* once, then it is stored and loaded back.                                *)
Post(v, refused) ==
  /\ todo = <<>>
  /\ ram' = v /\ asked' = v
  /\ todo' = <<"erase", "write", "load">>
  /\ error' = refused /\ untold' = FALSE /\ answer' = "none"
  /\ UNCHANGED <<flash, AppSide>>

(* config_handler: ConfigLoad and ConfigRestore act when they are met.     *)
config_handler(v) ==
  \/ Post(v, FALSE)
  \/ /\ todo = <<>>
     /\ \/ /\ UNCHANGED ram
           /\ asked' = IF Loads THEN flash ELSE "defaults"
           /\ todo' = <<"load", "erase", "write", "load">>
        \/ /\ ram' = "defaults" /\ asked' = "defaults"
           /\ todo' = <<"erase0", "write0", "load", "erase", "write", "load">>
     /\ error' = FALSE /\ untold' = FALSE /\ answer' = "none"
     /\ UNCHANGED <<flash, AppSide>>

(* config_iot_handler; config_ap_handler and config_station_handler, whose *)
(* SSID, password and mode are the SDK's own and may be refused            *)
config_iot_handler(v) == Post(v, FALSE)
config_ap_handler(v) == \E refused \in BOOLEAN : Post(v, refused)
config_station_handler(v) == \E refused \in BOOLEAN : Post(v, refused)

(* user_config_store, first half; the one of user_config_restore_defaults  *)
(* ("erase0") has nobody to tell its error                                 *)
Erase ==
  /\ todo # <<>> /\ todo[1] \in {"erase", "erase0"}
  /\ \/ flash' = "blank" /\ todo' = Tail(todo) /\ UNCHANGED <<error, untold>>
     \/ /\ UNCHANGED flash
        /\ todo' = Tail(Tail(todo))
        /\ error' = (error \/ todo[1] = "erase")
        /\ untold' = (untold \/ todo[1] = "erase0")
  /\ Done
  /\ UNCHANGED <<ram, asked, AppSide>>

(* ... and the second *)
Write ==
  /\ todo # <<>> /\ todo[1] \in {"write", "write0"}
  /\ todo' = Tail(todo)
  /\ \/ flash' = ram /\ UNCHANGED <<error, untold>>
     \/ /\ flash' = "torn"
        /\ error' = (error \/ todo[1] = "write")
        /\ untold' = (untold \/ todo[1] = "write0")
  /\ Done
  /\ UNCHANGED <<ram, asked, AppSide>>

\* Mutant: what was read is taken whatever its last field is.
LoadAny ==
  /\ todo # <<>> /\ todo[1] = "load"
  /\ IF flash # "blank" THEN ram' = flash /\ todo' = Tail(todo)
     ELSE ram' = "defaults" /\ todo' = <<"erase0", "write0">> \o Tail(todo)
  /\ UNCHANGED untold
  /\ UNCHANGED error /\ Done
  /\ UNCHANGED <<flash, asked, AppSide>>

(* user_config_load: what cannot be read, or is not whole, is replaced by  *)
(* the defaults, which are stored (user_config_restore_defaults).          *)
Load ==
  /\ todo # <<>> /\ todo[1] = "load"
  /\ \/ Loads /\ ram' = flash /\ todo' = Tail(todo) /\ UNCHANGED untold
     \/ /\ ram' = "defaults" /\ todo' = <<"erase0", "write0">> \o Tail(todo)
        /\ untold' = (untold \/ Loads)
  /\ UNCHANGED error /\ Done
  /\ UNCHANGED <<flash, asked, AppSide>>

(* user_app_config_init: what cannot be read, or is not whole, is not used *)
AppLoad ==
  /\ todo # <<>> /\ todo[1] = "app_load"
  /\ \/ AppLoads /\ app_valid' = TRUE /\ app_ram' = app_data
     \/ app_valid' = FALSE /\ UNCHANGED app_ram
  /\ todo' = Tail(todo)
  /\ UNCHANGED <<ram, flash, app_data, app_head, asked, error, untold, answer>>

(* user_app_config_handler_part, for the data another handler has set, and *)
(* for Erase, which leaves what is in use                                  *)
AppSave(v) ==
  /\ todo = <<>>
  /\ app_ram' = v /\ asked' = v
  /\ todo' = <<"app_erase", "app_data", "app_head", "app_test">>
  /\ error' = FALSE /\ answer' = "none"
  /\ UNCHANGED <<ram, flash, untold, app_valid, app_data, app_head>>
AppErase ==
  /\ todo = <<>>
  /\ todo' = <<"app_erase">>
  /\ asked' = "blank" /\ error' = FALSE /\ answer' = "none"
  /\ UNCHANGED <<UserSide, AppSide, untold>>

Fails == todo' = <<>> /\ error' = TRUE

(* user_app_config_store_l: erase, data, header *)
AppStore ==
  /\ todo # <<>>
  /\ \/ /\ todo[1] = "app_erase"
        /\ \/ app_data' = "blank" /\ app_head' = "blank" /\ todo' = Tail(todo) /\ UNCHANGED error
           \/ UNCHANGED <<app_data, app_head>> /\ Fails
     \/ /\ todo[1] = "app_data"
        /\ UNCHANGED app_head
        /\ \/ app_data' = app_ram /\ todo' = Tail(todo) /\ UNCHANGED error
           \/ app_data' = "torn" /\ Fails
     \/ /\ todo[1] = "app_head"
        /\ UNCHANGED app_data
        /\ \/ app_head' = app_ram /\ todo' = Tail(todo) /\ UNCHANGED error
           \/ app_head' = "torn" /\ Fails
  /\ Done
  /\ UNCHANGED <<UserSide, app_ram, app_valid, asked, untold>>

(* ... and the test that it can be loaded *)
AppTest ==
  /\ todo # <<>> /\ todo[1] = "app_test"
  /\ todo' = <<>>
  /\ \/ AppLoads /\ app_ram' = app_data /\ app_valid' = TRUE /\ UNCHANGED error
     \/ UNCHANGED <<app_ram, app_valid>> /\ error' = TRUE
  /\ Done
  /\ UNCHANGED <<UserSide, app_data, app_head, asked, untold>>

\* The power goes, in the middle of a write too, and the device starts again.
PowerLoss ==
  /\ ram' = "off" /\ app_ram' = "zeros" /\ app_valid' = FALSE
  /\ flash' \in IF todo # <<>> /\ todo[1] \in {"write", "write0"} THEN {flash, "torn"} ELSE {flash}
  /\ app_data' \in IF todo # <<>> /\ todo[1] = "app_data" THEN {app_data, "torn"} ELSE {app_data}
  /\ app_head' \in IF todo # <<>> /\ todo[1] = "app_head" THEN {app_head, "torn"} ELSE {app_head}
  /\ todo' = Boots
  /\ asked' = "nothing" /\ error' = FALSE /\ untold' = FALSE /\ answer' = "none"

Next ==
  \/ \E v \in Values :
       \/ config_handler(v) \/ config_iot_handler(v)
       \/ config_ap_handler(v) \/ config_station_handler(v)
  \/ Erase \/ Write \/ Load
  \/ \E v \in Values : AppSave(v)
  \/ AppErase \/ AppLoad \/ AppStore \/ AppTest
  \/ PowerLoss

Spec == Init /\ [][Next]_vars
-----------------------------------------------------------------------------
TypeOK ==
  /\ ram \in Settings \cup {"off", "torn"}
  /\ flash \in Settings \cup {"blank", "torn"}
  /\ app_ram \in Values \cup {"zeros", "torn"}
  /\ {app_data, app_head} \subseteq Values \cup {"blank", "torn"}
  /\ {error, untold, app_valid} \subseteq BOOLEAN

\* Settings torn by a power loss or a failed write are never taken.
NeverTorn == ram # "torn" /\ app_ram # "torn"

\* Between requests the settings in use are those the next start will use,
\* unless a failure of the flash went untold.
SurvivesRestart ==
  todo = <<>> /\ ~untold => ram = (IF Loads THEN flash ELSE "defaults")

\* A request answered with OK stored what it asked for.
OkIsStored ==
  answer = "ok" /\ ~untold /\ asked # "blank" =>
    \/ flash = asked /\ ram = asked
    \/ app_data = asked /\ app_head = asked /\ app_ram = asked /\ app_valid
=============================================================================
