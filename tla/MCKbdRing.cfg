SPECIFICATION Spec
CONSTANTS
    k1 = k1
    LF = LF
    BS = BS
    NoByte = NoByte
    Irq = Irq
    Hid = Hid
    Keys <- MCKeys
    Producers <- UsbOnly
    RingSize = 3
    LineMax = 2
    CountMod = 2
PROPERTIES
    RingIsFifo
