----------------------------- MODULE MCWcBrowse -----------------------------
(***************************************************************************)
(* A small instance of WcBrowse for TLC.  The card holds a capture with    *)
(* its sidecar, and under a second name nothing, a capture of the old      *)
(* format without a sidecar, one too large for the app, one of a format    *)
(* yet to come, or a file that is no capture; a third name is free.        *)
(***************************************************************************)
EXTENDS WcBrowse

wcen(devices, version) ==
  [i \in 1 .. header_size + record_size(version) * Len(devices) |->
     IF i <= header_size THEN << Magic, <<1, Len(devices), version>> >>[i]
     ELSE LET k == i - header_size - 1
          IN  <<2, devices[(k \div record_size(version)) + 1], (k % record_size(version)) + 1>>]

FirstCapture == [f \in {Bin("a"), Csv("a")} |->
  IF f[2] = "wcen" THEN wcen(<<1>>, 2) ELSE Sidecar(<<1>>)]

SecondFiles == {wcen(<<2, 3>>, 1), wcen(<<1, 2, 3>>, 2), wcen(<<2>>, 3), <<Magic>>}

MCCards == {FirstCapture} \cup
  {[f \in DOMAIN FirstCapture \cup {Bin("b")} |->
      IF f = Bin("b") THEN cells ELSE FirstCapture[f]] : cells \in SecondFiles}
MCNames == {"a", "b", "c"}
MCImported == <<2>>
=============================================================================
