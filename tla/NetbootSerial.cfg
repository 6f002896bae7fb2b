SPECIFICATION Spec
CONSTANTS
    m1 = m1
    m2 = m2
    m3 = m3
    m4 = m4
    Identity <- TwoPucks
    Macs = {m1, m2, m3, m4}
    Handlers = {h1}
    Clis = {}
    Main = Main
INVARIANTS
    TypeOK
    OfferedOnlyIfArmed
    NoLostArm
    NoZombieArm
    AnswerMeansOffered
PROPERTIES
    ImplementsUnattended
