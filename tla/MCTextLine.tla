------------------------------ MODULE MCTextLine ----------------------------
(* A few commands of each kind, among them values that are refused.  A     *)
(* byte 255 times just fits the buffer, alone.                             *)
EXTENDS TextLine

Byte == Cmd(<<"UINT">>, <<85>>)
Times(n) == Cmd(<<"UINT", "SUFFIX">>, <<85, n>>)
Write1 == Cmd(<<"WRITE">>, <<>>)
Value1(c, v) == Cmd(<<c, "UINT">>, <<v>>)
Up == Cmd(<<"PULL", "UP">>, <<>>)
Leave == Cmd(<<"EXIT">>, <<>>)

Flag(c) == Cmd(<<c>>, <<>>)

MCModes == DOMAIN Exec

MCParameters ==
  [spi |-> {Value1("DEVICE", 2), Value1("DEVICE", 9)},
   twowire |-> {Up}, jtag |-> {Up}, lin |-> {Value1("DEVICE", 2)},
   i2c |-> {Value1("DEVICE", 3)}, uart |-> {Value1("STOP_BITS", 3)},
   smartcard |-> {Value1("PHASE", 1)}, onewire |-> {Flag("LSB_FIRST")},
   threewire |-> {}, wiegand |-> {Up}, flash |-> {}]

MCCommands ==
  [spi |-> {Byte, Write1, Leave, Value1("DEVICE", 2), Value1("DEVICE", 9), Value1("POLARITY", 1)},
   twowire |-> {Byte, Leave, Flag("CARET"), Value1("POLARITY", 0),
                Cmd(<<"FREQUENCY", "FLOAT">>, <<1>>)},
   jtag |-> {Byte, Leave, Up, Value1("TCK", 5), Value1("TMS", 6)},
   lin |-> {Times(255), Times(256), Leave, Cmd(<<"READ", "SUFFIX">>, <<3>>),
            Value1("DEVICE", 1)},
   i2c |-> {Leave, Flag("SNIFF"), Value1("CLOCK_STRETCH", 9)},
   uart |-> {Leave, Value1("SPEED", 9600), Value1("TIMEOUT", Illegal)},
   smartcard |-> {Leave, Flag("ATR"), Value1("CONVENTION", 2)},
   onewire |-> {Leave, Byte, Flag("DEBUG"), Cmd(<<"UINT">>, <<256>>)},
   threewire |-> {Leave, Byte, Times(300)},
   wiegand |-> {Leave, Up},
   flash |-> {Leave, Flag("ID")}]

MCTails ==
  [spi |-> {Cmd(<<"SHOW", "PINS">>, <<>>)},
   twowire |-> {Cmd(<<"SHOW">>, <<>>)},
   jtag |-> {Cmd(<<"BRUTE", "BYPASS", "UINT">>, <<4>>)},
   lin |-> {Cmd(<<"TRIGGER", "START">>, <<>>)},
   i2c |-> {}, uart |-> {Cmd(<<"TRIGGER", "SHOW", "PINS">>, <<>>)}, smartcard |-> {},
   onewire |-> {}, threewire |-> {}, wiegand |-> {Flag("SHOW")}, flash |-> {}]
=============================================================================
