------------------------------ MODULE ColorModel ------------------------------
(***************************************************************************)
(* What the outputs of a light have to show for a setting of the bulb      *)
(* (ConfigToState of WhiteController, CCTController and RGBWController).   *)
(* A state is a tuple with a number for each output, exact in the unit     *)
(* 1/Full of its controller.  Below, the same from the definitions of HSV  *)
(* and of additive mixing, for comparison.                                 *)
(***************************************************************************)
EXTENDS Integers, Sequences, FiniteSetsExt

\* "rgb" is an RGBWController without an out_w_.
BulbTypes == {"white", "cct", "rgb", "rgbw"}

\* on is cfg.state, b brightness, h hue, s saturation, ct color_temperature.
Settings == [on : BOOLEAN, b : 0 .. 100, h : 0 .. 360, s : 0 .. 100,
             ct : 50 .. 400]

\* mgos_config_lb_set_defaults.
Defaults == [on |-> FALSE, b |-> 100, h |-> 0, s |-> 100, ct |-> 400]

Outputs(type) == CASE type = "white" -> 1 [] type = "cct" -> 2
                   [] type = "rgb" -> 3 [] OTHER -> 4

Dark(type) == [i \in 1 .. Outputs(type) |-> 0]

Full(type) == CASE type = "white" -> 100 [] type = "cct" -> 350 * 100
                [] OTHER -> 60 * 100 * 100

Lower(a, c) == IF a < c THEN a ELSE c

\* Warm and cold white.
CCTState(cfg) == <<(cfg.ct - 50) * cfg.b, (350 - (cfg.ct - 50)) * cfg.b>>

\* Red, green and blue; i is the sector of the hue and f how far in it is.
HsvState(cfg) ==
  LET i == cfg.h \div 60
      f == cfg.h % 60
      v == cfg.b * 6000
      p == cfg.b * (6000 - 60 * cfg.s)
      q == cfg.b * (6000 - f * cfg.s)
      t == cfg.b * (6000 - (60 - f) * cfg.s)
  IN  IF cfg.s = 0 THEN <<v, v, v>>
      ELSE <<<<v, t, p>>, <<q, v, p>>, <<p, v, t>>,
             <<p, q, v>>, <<t, p, v>>, <<v, p, q>>>>[(i % 6) + 1]

\* The white channel takes what the three have in common.
WithWhite(rgb) ==
  LET w == Lower(rgb[1], Lower(rgb[2], rgb[3]))
  IN  <<rgb[1] - w, rgb[2] - w, rgb[3] - w, w>>

ConfigToState(type, cfg) ==
  IF ~cfg.on THEN Dark(type) ELSE
  CASE type = "white" -> <<cfg.b>>
    [] type = "cct" -> CCTState(cfg)
    [] type = "rgb" -> HsvState(cfg)
    [] OTHER -> WithWhite(HsvState(cfg))

-----------------------------------------------------------------------------
\* A colour channel of HSV: v - v s max(0, min(k, 4 - k, 1)), where k is
\* (n + h / 60) mod 6 and n is 5, 3, 1 for red, green, blue.
Channel(cfg, n) ==
  LET k == (60 * n + cfg.h) % 360
  IN  cfg.b * (6000 - cfg.s * Max({0, Min({k, 240 - k, 60})}))

\* st is what cfg asks for: all outputs together give the colour, as bright
\* as it should be, and no colour is mixed to white beside a white output.
Shows(type, cfg, st) ==
  IF ~cfg.on THEN st = Dark(type) ELSE
  CASE type = "white" -> st[1] = cfg.b
    [] type = "cct" -> /\ st[1] + st[2] = cfg.b * 350
                       /\ st[1] * (400 - cfg.ct) = st[2] * (cfg.ct - 50)
    [] type = "rgb" -> \A i \in 1 .. 3 : st[i] = Channel(cfg, 7 - 2 * i)
    [] OTHER -> /\ \A i \in 1 .. 3 : st[i] + st[4] = Channel(cfg, 7 - 2 * i)
                /\ \E i \in 1 .. 3 : st[i] = 0
=============================================================================
