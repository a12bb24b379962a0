------------------------------- MODULE MC_I8k -------------------------------
(* The instance of I8k that TLC checks: two lines the driver writes for one  *)
(* machine, before and after a fan error.                                  *)
EXTENDS I8k, TLC

\* A machine with all ten fields, fans off and high, AC on.
LineFull == <<"1.0", "A17", "5XJ28", "52", "0", "2", "0", "4140", "1", "0">>
\* The same machine after a fan error, on battery.
LineErr == <<"1.0", "A17", "5XJ28", "61", "-1", "1", "0", "2070", "0", "1">>

MCLines == {LineFull, LineErr}

MCNum == ("52" :> 52) @@ ("61" :> 61) @@ ("0" :> 0) @@ ("1" :> 1)
         @@ ("2" :> 2) @@ ("-1" :> -1) @@ ("4140" :> 4140) @@ ("2070" :> 2070)

\* A configuration showing a fan, the temperature, the AC status and a fan
\* speed: one printer of each kind, without ${i8k_buttons_status}.
MCUsedNoButtons == {"left_fan_status", "cpu_temp", "ac_status", "right_fan_rpm"}
=============================================================================
