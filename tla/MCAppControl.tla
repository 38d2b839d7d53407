---------------------------- MODULE MCAppControl ----------------------------
(* Small instances of AppControl. *)
EXTENDS AppControl

ConnectForm == {"ap", "sta"} \X {"/connect"}

\* The form of the hotspot; the clock and the buttons of the status page.
FormsAndButtons == {<<"ap", "/connect">>, <<"sta", "/rtc-set">>, <<"sta", "/reboot">>,
                    <<"sta", "/wifi-forget">>}

\* The buttons and the form that the page of each interface has.
Buttons == {<<"ap", "/connect">>, <<"ap", "/reboot">>, <<"sta", "/reboot">>,
            <<"sta", "/wifi-forget">>}
=============================================================================
