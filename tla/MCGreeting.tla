------------------------------- MODULE MCGreeting -------------------------------
\* Greeting for TLC: the values at the edges of bytes and of the tests.
EXTENDS Greeting

MCSizes   == {0, 1, 255, 256, 257, 480, 1080, 1920, 65535}
MCRates   == {0, 1, 30, 31, 255}
MCTypes   == {0, 1, 2, 255}
MCConfigs == { [dimensions |-> {}, maxFps |-> 255],
               [dimensions |-> {<<1920, 1080>>}, maxFps |-> 30],
               [dimensions |-> {<<1, 256>>, <<480, 0>>}, maxFps |-> 0] }
===============================================================================
