---------------------------- MODULE MCHttpFiles -----------------------------
(* Small instances of HttpFiles. *)
EXTENDS HttpFiles, TLC

MCSize == [b \in Buffers |-> IF b = "s_page_buf" THEN 3 ELSE IF b = "s_logs_buf" THEN 2 ELSE 1]

\* One URI for each way of composing a response.
AllUris == {"/", "/rebooting", "/result", "/rtc-set-result", "/logs",
            "/sd-csv", "/generate_204"}
PageAndLog == {"/", "/sd-csv"}
=============================================================================
