SPECIFICATION Spec
CONSTANTS
  Nodes = {n1, n2, n3}
  Values = {a, b}
  m_Head = m_Head
  Garbage = Garbage
  SizeRange = 8
INVARIANTS TypeOK Ring Memory
PROPERTY FifoSpec
CHECK_DEADLOCK FALSE
